---- MODULE Spec2Model ----
(***************************************************************************)
(* The OCR conversion scripts of the repository as one state machine.      *)
(*                                                                         *)
(* A run is one program: a script's __main__ block, or one conversion      *)
(* function called directly with its arguments.  The Python call stack is  *)
(* the variable stack; every action is one step of the function on top of  *)
(* it.  The file system, the printed report and the outcomes of the        *)
(* library calls (fitz, pytesseract, reportlab, ocrmypdf) are explicit:    *)
(* a library call's outcome is an input drawn by the action that makes it. *)
(***************************************************************************)
EXTENDS Integers, Sequences, FiniteSets, TLC

\* Bounds of the model.
MaxPages == 3
MaxChunk == 3
MaxFiles == 2

VARIABLES
    stack,        \* Python call stack: frames [fn, pc], the last one running
    ret,          \* value returned by the last call that returned
    exit_status,  \* "running", "exit1", "crashed" or "interrupted"
    files,        \* file system: path -> content (a sequence of pages)
    folders,      \* directories created by the run
    log,          \* what the run has printed, in order
    intr,         \* a KeyboardInterrupt has been delivered
    ocr_calls,    \* calls made to an OCR engine (pytesseract, ocrmypdf)
    conv,         \* locals of the running conversion function
    pic,          \* locals of process_in_chunks
    bat,          \* locals of batch_convert_pdfs
    mn            \* locals of the running script (__main__ block, main())

vars == <<stack, ret, exit_status, files, folders, log, intr, ocr_calls,
          conv, pic, bat, mn>>

----------------------------------------------------------------------------
\* Paths, pages, messages.

InPath(i) == <<"in", i>>
OutPath(i) == <<"out", i>>

NoFiles == [p \in {} |-> <<>>]

Put(f, path, content) ==
    [p \in DOMAIN f \cup {path} |-> IF p = path THEN content ELSE f[p]]

Del(f, paths) == [p \in DOMAIN f \ paths |-> f[p]]

Page(n, k) == [src |-> n, kind |-> k]

\* A scanned source document of n pages.
OrigDoc(n) == [i \in 1..n |-> Page(i, "orig")]

Msg(m, x, y) == [msg |-> m, a |-> x, b |-> y]

Said(m) == \E i \in 1..Len(log) : log[i].msg = m

\* The "Error: {e}" lines, by the call that raised: fitz.open, loading a
\* page, writing the output, writing a chunk, ocrmypdf.ocr.
SaveErrors == {"error_save", "error_saving_final"}
ErrorMsgs == SaveErrors \cup {"error_open", "error_load", "error_chunk_save", "error_ocrmypdf"}

----------------------------------------------------------------------------
\* The call stack.

Top == stack[Len(stack)]

At(f, l) == Len(stack) > 0 /\ Top.fn = f /\ Top.pc = l

Goto(l) ==
    /\ stack' = [stack EXCEPT ![Len(stack)].pc = l]
    /\ ret' = ret

\* The running function returns v: its frame is popped; the bottom frame
\* (the program itself) stays, at "done".
Return(v) ==
    /\ stack' = IF Len(stack) = 1
                THEN <<[fn |-> stack[1].fn, pc |-> "done"]>>
                ELSE SubSeq(stack, 1, Len(stack) - 1)
    /\ ret' = v

\* Mutant: a save step that reports success whatever the write did.
ResultOfSave_AlwaysTrue(saved) == "True"

\* What a conversion function returns after its save step: True after the
\* success lines, False from the except clause that caught the save's error.
ResultOfSave(saved) == IF saved THEN "True" ELSE "False"

\* Mutant: a handler that prints and continues without c.showPage().
BlankPageOnError_NoShowPage(c, n) == c

\* "c.showPage()  # Still create blank page" in the per-page handler.
BlankPageOnError(c, n) == Append(c, Page(n, "blank"))

ConvLocals(inp, out) ==
    [input_pdf_path |-> inp, output_pdf_path |-> out,
     pdf_document |-> <<>>, total_pages |-> 0, page_num |-> 0,
     successful_pages |-> 0, page_paths |-> <<>>, c |-> <<>>,
     all_text |-> <<>>, ocrRes |-> <<>>]

PicLocals(inp, ppc) ==
    [input_pdf_path |-> inp, pages_per_chunk |-> ppc, pdf_document |-> <<>>,
     total_pages |-> 0, start_page |-> 0, chunks_processed |-> 0,
     ranges |-> <<>>]

BatLocals == [pdf_files |-> <<>>, idx |-> 0, successful |-> 0, failed |-> 0]

MainLocals ==
    [probe |-> "unchecked", continue_anyway |-> "na", selected_file |-> <<"none", 0>>,
     calls |-> <<>>, results |-> <<>>]

MAIN_SO == "PDFc_Searchable_only_main"
MAIN_SE == "PDFc_SearchableandEditable_main"
MAIN_PC == "PDFconverter_main"

\* The script frames whose pending call stands inside a
\* "try ... except KeyboardInterrupt".
CatchesKeyboardInterrupt(frame) ==
    \/ frame.fn = MAIN_SO /\ frame.pc = "after_call"
    \/ frame.fn = MAIN_PC /\ frame.pc \in {"after_convert", "after_simple"}

\* A KeyboardInterrupt that no handler of the running function catches: it
\* unwinds the stack up to the script, which prints that the run was
\* cancelled and ends, or to the interpreter, which ends the process.
RaiseKeyboardInterrupt ==
    /\ intr' = TRUE
    /\ ret' = ret
    /\ IF CatchesKeyboardInterrupt(stack[1])
       THEN /\ stack' = <<[fn |-> stack[1].fn, pc |-> "completed"]>>
            /\ log' = Append(log, Msg("cancelled", 0, 0))
            /\ exit_status' = exit_status
       ELSE /\ stack' = <<[fn |-> stack[1].fn, pc |-> "done"]>>
            /\ log' = log
            /\ exit_status' = "interrupted"

\* sys.exit(status), or an uncaught exception, in a script.
Exit(status) ==
    /\ stack' = <<[fn |-> stack[1].fn, pc |-> "done"]>>
    /\ exit_status' = status
    /\ ret' = ret

\* The call of conversion function f from the running function, which
\* resumes at after.
Call(f, after) ==
    /\ stack' = Append([stack EXCEPT ![Len(stack)].pc = after],
                       [fn |-> f, pc |-> "start"])
    /\ ret' = ret

----------------------------------------------------------------------------
\* PDFc_Searchable_only.py: create_searchable_pdf.

CSP == "create_searchable_pdf"

\* What one iteration of the page loop meets: pdf_document[page_num] raising,
\* extract_text_from_page interrupted, failing inside (caught, returns ""),
\* returning no text, or returning text followed by insert_textbox succeeding,
\* raising or being interrupted.
CSP_PageEvents ==
    {"load_error", "ocr_interrupt", "ocr_error", "nowords",
     "words_inserted", "words_insert_error", "words_insert_interrupt"}

\* The bare "except:" around page.insert_textbox catches every exception,
\* KeyboardInterrupt included.
InsertTextboxCatches(e) == e \in {"words_insert_error", "words_insert_interrupt"}

\* The head shared by every page-loop conversion function: the os.path.exists
\* guard that prints and returns False, then fitz.open inside the outer try,
\* whose "except Exception" prints the error and returns False.
StartConversion(f) ==
    /\ At(f, "start")
    /\ IF conv.input_pdf_path \notin DOMAIN files
       THEN /\ log' = Append(log, Msg("input_not_found", 0, 0))
            /\ Return("False")
            /\ UNCHANGED conv
       ELSE \E open_ok \in BOOLEAN :
              IF open_ok
              THEN /\ conv' = [conv EXCEPT
                                 !.pdf_document = files[conv.input_pdf_path],
                                 !.total_pages = Len(files[conv.input_pdf_path])]
                   /\ log' = Append(log, Msg("opening", 0, 0))
                   /\ Goto("loop")
              ELSE /\ log' = log \o <<Msg("opening", 0, 0), Msg("error_open", 0, 0)>>
                   /\ Return("False")
                   /\ UNCHANGED conv
    /\ UNCHANGED <<exit_status, files, folders, intr, ocr_calls, pic, bat, mn>>

create_searchable_pdf_start == StartConversion(CSP)

create_searchable_pdf_page ==
    /\ At(CSP, "loop")
    /\ conv.page_num < conv.total_pages
    /\ \E e \in CSP_PageEvents :
         LET n == conv.page_num + 1
             called == IF e = "load_error" THEN 0 ELSE 1
         IN
         /\ ocr_calls' = ocr_calls + called
         /\ IF e = "load_error"
            THEN /\ log' = Append(log, Msg("error_load", 0, 0))
                 /\ Return("False")
                 /\ UNCHANGED <<conv, intr, exit_status>>
            ELSE IF e = "ocr_interrupt"
            THEN /\ RaiseKeyboardInterrupt
                 /\ UNCHANGED conv
            ELSE /\ conv' = [conv EXCEPT
                               !.page_num = n,
                               !.ocrRes = Append(@, e),
                               !.pdf_document =
                                  IF e = "words_inserted"
                                  THEN [@ EXCEPT ![n].kind = "searchable"]
                                  ELSE @]
                 /\ log' = Append(log,
                        Msg(CASE e = "words_inserted" -> "status_ok"
                              [] InsertTextboxCatches(e) -> "status_warn"
                              [] OTHER -> "status_empty", n, 0))
                 /\ intr' = (intr \/ e = "words_insert_interrupt")
                 /\ Goto("loop")
                 /\ UNCHANGED exit_status
    /\ UNCHANGED <<files, folders, pic, bat, mn>>

create_searchable_pdf_save ==
    /\ At(CSP, "loop")
    /\ conv.page_num = conv.total_pages
    /\ \E s \in {"ok", "error", "interrupt"} :
         CASE s = "ok" ->
                /\ files' = Put(files, conv.output_pdf_path, conv.pdf_document)
                /\ log' = log \o <<Msg("saving", 0, 0), Msg("success", 0, 0)>>
                /\ Return(ResultOfSave(TRUE))
                /\ UNCHANGED <<intr, exit_status>>
           [] s = "error" ->
                /\ log' = log \o <<Msg("saving", 0, 0), Msg("error_save", 0, 0)>>
                /\ Return(ResultOfSave(FALSE))
                /\ UNCHANGED <<files, intr, exit_status>>
           [] s = "interrupt" ->
                /\ RaiseKeyboardInterrupt
                /\ UNCHANGED files
    /\ UNCHANGED <<folders, ocr_calls, conv, pic, bat, mn>>

----------------------------------------------------------------------------
\* PDFc_Searchable_only.py: extract_text_only.

ETO == "extract_text_only"

ETO_PageEvents == {"load_error", "ocr_interrupt", "ocr_error", "nowords", "words"}

extract_text_only_start == StartConversion(ETO)

extract_text_only_page ==
    /\ At(ETO, "loop")
    /\ conv.page_num < conv.total_pages
    /\ \E e \in ETO_PageEvents :
         LET n == conv.page_num + 1 IN
         /\ ocr_calls' = ocr_calls + (IF e = "load_error" THEN 0 ELSE 1)
         /\ IF e = "load_error"
            THEN /\ log' = Append(log, Msg("error_load", 0, 0))
                 /\ Return("False")
                 /\ UNCHANGED <<conv, intr, exit_status>>
            ELSE IF e = "ocr_interrupt"
            THEN /\ RaiseKeyboardInterrupt
                 /\ UNCHANGED conv
            ELSE /\ conv' = [conv EXCEPT
                               !.page_num = n,
                               !.ocrRes = Append(@, e),
                               !.all_text =
                                  IF e = "words"
                                  THEN @ \o <<Page(n, "marker"), Page(n, "text")>>
                                  ELSE @]
                 /\ log' = Append(log,
                        Msg(IF e = "words" THEN "status_ok" ELSE "status_empty", n, 0))
                 /\ Goto("loop")
                 /\ UNCHANGED <<intr, exit_status>>
    /\ UNCHANGED <<files, folders, pic, bat, mn>>

extract_text_only_save ==
    /\ At(ETO, "loop")
    /\ conv.page_num = conv.total_pages
    /\ \E s \in {"ok", "error", "interrupt"} :
         CASE s = "ok" ->
                /\ files' = Put(files, conv.output_pdf_path, conv.all_text)
                /\ log' = Append(log, Msg("success", 0, 0))
                /\ Return(ResultOfSave(TRUE))
                /\ UNCHANGED <<intr, exit_status>>
           [] s = "error" ->
                /\ log' = Append(log, Msg("error_save", 0, 0))
                /\ Return(ResultOfSave(FALSE))
                /\ UNCHANGED <<files, intr, exit_status>>
           [] s = "interrupt" ->
                /\ RaiseKeyboardInterrupt
                /\ UNCHANGED files
    /\ UNCHANGED <<folders, ocr_calls, conv, pic, bat, mn>>

----------------------------------------------------------------------------
\* PDFc_SearchableandEditable.py: extract_text_from_page and its callers.

RL == "create_pdf_with_reportlab"
TO == "create_text_only_pdf_clean"
TF == "extract_to_text_file"
CEP == "create_editable_pdf"

\* extract_text_from_page returns (text, image, boxes), and ("", None, None)
\* from its own exception handler: three values on every path.
ExtractReturnArity == 3

\* The number of names each caller unpacks the returned tuple into.
UnpackTargets(f) ==
    CASE f = RL -> 2      \* text, original_image = ...
      [] f = TO -> 2      \* text, _ = ...
      [] f = TF -> 2      \* text, _ = ...
      [] f = CEP -> 3     \* text, image, boxes = ...

\* Unpacking a tuple into a different number of names raises ValueError.
UnpackRaises(f) == UnpackTargets(f) # ExtractReturnArity

\* What one iteration meets up to the unpacking: pdf_document[page_num]
\* raising, extract_text_from_page interrupted, failing inside (caught,
\* returns "", None, None), returning an image with no text, or with text.
SE_PageEvents == {"load_error", "ocr_interrupt", "ocr_error", "nowords", "words"}

\* The temporary image create_pdf_with_reportlab writes in the working
\* directory for page_num (0-based).
TempImagePath(page_num) == <<"temp_page", page_num>>

\* Whether the iteration reaches the per-page "except Exception" handler
\* before anything is drawn on the page.
FailsBeforeDrawing(f, e) == e = "load_error" \/ UnpackRaises(f)

create_pdf_with_reportlab_start == StartConversion(RL)

\* One iteration of the page loop.  draw is the outcome of c.drawImage, met
\* only when the iteration gets that far.
create_pdf_with_reportlab_page ==
    /\ At(RL, "loop")
    /\ conv.page_num < conv.total_pages
    /\ \E e \in SE_PageEvents, draw \in {"ok", "error"} :
         LET n == conv.page_num + 1
             tmp == TempImagePath(conv.page_num)
             has_image == e \in {"nowords", "words"}
         IN
         /\ ocr_calls' = ocr_calls + (IF e = "load_error" THEN 0 ELSE 1)
         /\ IF e = "ocr_interrupt"
            THEN /\ RaiseKeyboardInterrupt
                 /\ UNCHANGED <<conv, files>>
            ELSE /\ IF FailsBeforeDrawing(RL, e)
                    THEN \* except Exception: print, c.showPage(), continue
                         /\ conv' = [conv EXCEPT !.page_num = n,
                                        !.ocrRes = Append(@, e),
                                        !.c = BlankPageOnError(@, n)]
                         /\ log' = Append(log, Msg("status_error", n, 0))
                         /\ UNCHANGED files
                    ELSE IF has_image /\ draw = "error"
                    THEN \* the image was saved, drawImage raised: the handler
                         \* does not remove it
                         /\ conv' = [conv EXCEPT !.page_num = n,
                                        !.ocrRes = Append(@, e),
                                        !.c = BlankPageOnError(@, n)]
                         /\ log' = Append(log, Msg("status_error", n, 0))
                         /\ files' = Put(files, tmp, <<Page(n, "image")>>)
                    ELSE IF has_image
                    THEN \* saved, drawn, os.remove(temp_image_path)
                         /\ conv' = [conv EXCEPT !.page_num = n,
                                        !.ocrRes = Append(@, e),
                                        !.successful_pages = @ + 1,
                                        !.c = Append(@, Page(n, "image"))]
                         /\ log' = Append(log, Msg("status_ok", n, 0))
                         /\ UNCHANGED files
                    ELSE /\ conv' = [conv EXCEPT !.page_num = n,
                                        !.ocrRes = Append(@, e),
                                        !.c = Append(@, Page(n, "blank"))]
                         /\ log' = Append(log, Msg("status_empty", n, 0))
                         /\ UNCHANGED files
                 /\ Goto("loop")
                 /\ UNCHANGED <<intr, exit_status>>
    /\ UNCHANGED <<folders, pic, bat, mn>>

\* c.save() and the summary, shared by the two reportlab conversions.
CanvasSave(f) ==
    /\ At(f, "loop")
    /\ conv.page_num = conv.total_pages
    /\ \E s \in {"ok", "error", "interrupt"} :
         CASE s = "ok" ->
                /\ files' = Put(files, conv.output_pdf_path, conv.c)
                /\ log' = log \o <<Msg("success", 0, 0),
                             Msg("summary", conv.successful_pages, conv.total_pages)>>
                /\ Return(ResultOfSave(TRUE))
                /\ UNCHANGED <<intr, exit_status>>
           [] s = "error" ->
                /\ log' = Append(log, Msg("error_save", 0, 0))
                /\ Return(ResultOfSave(FALSE))
                /\ UNCHANGED <<files, intr, exit_status>>
           [] s = "interrupt" ->
                /\ RaiseKeyboardInterrupt
                /\ UNCHANGED files
    /\ UNCHANGED <<folders, ocr_calls, conv, pic, bat, mn>>

create_pdf_with_reportlab_save == CanvasSave(RL)

create_text_only_pdf_clean_start == StartConversion(TO)

create_text_only_pdf_clean_page ==
    /\ At(TO, "loop")
    /\ conv.page_num < conv.total_pages
    /\ \E e \in SE_PageEvents :
         LET n == conv.page_num + 1 IN
         /\ ocr_calls' = ocr_calls + (IF e = "load_error" THEN 0 ELSE 1)
         /\ IF e = "ocr_interrupt"
            THEN /\ RaiseKeyboardInterrupt
                 /\ UNCHANGED conv
            ELSE /\ IF FailsBeforeDrawing(TO, e)
                    THEN /\ conv' = [conv EXCEPT !.page_num = n,
                                        !.ocrRes = Append(@, e),
                                        !.c = BlankPageOnError(@, n)]
                         /\ log' = Append(log, Msg("status_error", n, 0))
                    ELSE IF e = "words"
                    THEN /\ conv' = [conv EXCEPT !.page_num = n,
                                        !.ocrRes = Append(@, e),
                                        !.successful_pages = @ + 1,
                                        !.c = Append(@, Page(n, "text"))]
                         /\ log' = Append(log, Msg("status_ok", n, 0))
                    ELSE /\ conv' = [conv EXCEPT !.page_num = n,
                                        !.ocrRes = Append(@, e),
                                        !.c = Append(@, Page(n, "blank"))]
                         /\ log' = Append(log, Msg("status_empty", n, 0))
                 /\ Goto("loop")
                 /\ UNCHANGED <<intr, exit_status>>
    /\ UNCHANGED <<files, folders, pic, bat, mn>>

create_text_only_pdf_clean_save == CanvasSave(TO)

extract_to_text_file_start == StartConversion(TF)

extract_to_text_file_page ==
    /\ At(TF, "loop")
    /\ conv.page_num < conv.total_pages
    /\ \E e \in SE_PageEvents :
         LET n == conv.page_num + 1 IN
         /\ ocr_calls' = ocr_calls + (IF e = "load_error" THEN 0 ELSE 1)
         /\ IF e = "ocr_interrupt"
            THEN /\ RaiseKeyboardInterrupt
                 /\ UNCHANGED conv
            ELSE /\ IF FailsBeforeDrawing(TF, e)
                    THEN /\ conv' = [conv EXCEPT !.page_num = n,
                                        !.ocrRes = Append(@, e)]
                         /\ log' = Append(log, Msg("status_error", n, 0))
                    ELSE IF e = "words"
                    THEN /\ conv' = [conv EXCEPT !.page_num = n,
                                        !.ocrRes = Append(@, e),
                                        !.successful_pages = @ + 1,
                                        !.all_text = @ \o <<Page(n, "marker"),
                                                            Page(n, "text")>>]
                         /\ log' = Append(log, Msg("status_ok", n, 0))
                    ELSE /\ conv' = [conv EXCEPT !.page_num = n,
                                        !.ocrRes = Append(@, e)]
                         /\ log' = Append(log, Msg("status_empty", n, 0))
                 /\ Goto("loop")
                 /\ UNCHANGED <<intr, exit_status>>
    /\ UNCHANGED <<files, folders, pic, bat, mn>>

extract_to_text_file_save ==
    /\ At(TF, "loop")
    /\ conv.page_num = conv.total_pages
    /\ \E s \in {"ok", "error", "interrupt"} :
         CASE s = "ok" ->
                /\ files' = Put(files, conv.output_pdf_path, conv.all_text)
                /\ log' = log \o <<Msg("success", 0, 0),
                             Msg("summary", conv.successful_pages, conv.total_pages)>>
                /\ Return(ResultOfSave(TRUE))
                /\ UNCHANGED <<intr, exit_status>>
           [] s = "error" ->
                /\ log' = Append(log, Msg("error_save", 0, 0))
                /\ Return(ResultOfSave(FALSE))
                /\ UNCHANGED <<files, intr, exit_status>>
           [] s = "interrupt" ->
                /\ RaiseKeyboardInterrupt
                /\ UNCHANGED files
    /\ UNCHANGED <<folders, ocr_calls, conv, pic, bat, mn>>

----------------------------------------------------------------------------
\* PDFc_SearchableandEditable.py: create_editable_pdf.

\* The per-page files create_editable_pdf keeps in its TemporaryDirectory.
TempDirImage(page_num) == <<"tmpdir_png", page_num>>
TempDirPdf(page_num) == <<"tmpdir_pdf", page_num>>
TempDirFiles(f) == {p \in DOMAIN f : p[1] \in {"tmpdir_png", "tmpdir_pdf"}}

\* Leaving the "with tempfile.TemporaryDirectory()" block, by return or by an
\* exception, removes the directory and what it holds.
TempDirCleanup(f) == Del(f, TempDirFiles(f))

\* As SE_PageEvents, with the outcome of composing the page (image.save,
\* c.drawImage, the text layer, c.save) when the page has text.
CEP_PageEvents ==
    {"load_error", "ocr_interrupt", "ocr_error", "nowords",
     "words_drawn", "words_draw_error", "words_draw_interrupt"}

\* "if text and image and boxes": a page is composed only when OCR gave text.
ComposesPage(e) == e \in {"words_drawn", "words_draw_error", "words_draw_interrupt"}

create_editable_pdf_start == StartConversion(CEP)

\* Mutant: a composed page that is counted and not put on the list.
RecordPage_CountOnly(cv, temp_pdf) == [cv EXCEPT !.successful_pages = @ + 1]

\* page_paths.append(temp_pdf); successful_pages += 1
RecordPage(cv, temp_pdf) ==
    [cv EXCEPT !.page_paths = Append(@, temp_pdf), !.successful_pages = @ + 1]

create_editable_pdf_page ==
    /\ At(CEP, "loop")
    /\ conv.page_num < conv.total_pages
    /\ \E e \in CEP_PageEvents :
         LET n == conv.page_num + 1
             png == TempDirImage(conv.page_num)
             pdf == TempDirPdf(conv.page_num)
         IN
         /\ ocr_calls' = ocr_calls + (IF e = "load_error" THEN 0 ELSE 1)
         /\ IF e = "ocr_interrupt" \/ (~FailsBeforeDrawing(CEP, e) /\ e = "words_draw_interrupt")
            THEN /\ RaiseKeyboardInterrupt
                 /\ files' = TempDirCleanup(files)
                 /\ UNCHANGED conv
            ELSE /\ IF FailsBeforeDrawing(CEP, e)
                    THEN \* except Exception: print, continue
                         /\ conv' = [conv EXCEPT !.page_num = n,
                                        !.ocrRes = Append(@, e)]
                         /\ log' = Append(log, Msg("status_error", n, 0))
                         /\ UNCHANGED files
                    ELSE IF ComposesPage(e) /\ e = "words_draw_error"
                    THEN /\ conv' = [conv EXCEPT !.page_num = n,
                                        !.ocrRes = Append(@, e)]
                         /\ log' = Append(log, Msg("status_error", n, 0))
                         /\ files' = Put(files, png, <<Page(n, "image")>>)
                    ELSE IF ComposesPage(e)
                    THEN /\ conv' = RecordPage([conv EXCEPT !.page_num = n,
                                                            !.ocrRes = Append(@, e)], pdf)
                         /\ log' = Append(log, Msg("status_ok", n, 0))
                         /\ files' = Put(Put(files, png, <<Page(n, "image")>>),
                                         pdf, <<Page(n, "editable")>>)
                    ELSE /\ conv' = [conv EXCEPT !.page_num = n,
                                        !.ocrRes = Append(@, e)]
                         /\ log' = Append(log, Msg("status_empty", n, 0))
                         /\ UNCHANGED files
                 /\ Goto("loop")
                 /\ UNCHANGED <<intr, exit_status>>
    /\ UNCHANGED <<folders, pic, bat, mn>>

\* output_doc after the merge loop: the temporary page files that open, in
\* the order of page_paths; bad are the positions whose fitz.open raises.
RECURSIVE MergePages(_, _, _, _)
MergePages(f, paths, bad, i) ==
    IF i > Len(paths) THEN <<>>
    ELSE (IF i \in bad THEN <<>> ELSE f[paths[i]]) \o MergePages(f, paths, bad, i + 1)

\* The warnings of the merge loop, one for each temporary file that did not
\* open.
MergeWarnings(paths, bad) ==
    LET idx == SelectSeq([i \in 1..Len(paths) |-> i], LAMBDA i : i \in bad)
    IN  [k \in 1..Len(idx) |-> Msg("warning_temp_file", idx[k], 0)]

\* The tail of the function: "if successful_pages > 0" merge and save, else
\* return False.
create_editable_pdf_finish ==
    /\ At(CEP, "loop")
    /\ conv.page_num = conv.total_pages
    /\ IF conv.successful_pages > 0
       THEN \E bad \in SUBSET (1..Len(conv.page_paths)), s \in {"ok", "error", "interrupt"} :
              LET output_doc == MergePages(files, conv.page_paths, bad, 1)
                  \* a document without pages cannot be saved
                  saved == s = "ok" /\ Len(output_doc) > 0
              IN
              IF s = "interrupt"
              THEN /\ RaiseKeyboardInterrupt
                   /\ files' = TempDirCleanup(files)
              ELSE IF saved
              THEN /\ files' = Put(TempDirCleanup(files), conv.output_pdf_path, output_doc)
                   /\ log' = log \o MergeWarnings(conv.page_paths, bad)
                                \o <<Msg("success", 0, 0),
                                     Msg("summary", conv.successful_pages, conv.total_pages)>>
                   /\ Return(ResultOfSave(TRUE))
                   /\ UNCHANGED <<intr, exit_status>>
              ELSE /\ files' = TempDirCleanup(files)
                   /\ log' = Append(log \o MergeWarnings(conv.page_paths, bad),
                                    Msg("error_saving_final", 0, 0))
                   /\ Return(ResultOfSave(FALSE))
                   /\ UNCHANGED <<intr, exit_status>>
       ELSE /\ files' = TempDirCleanup(files)
            /\ Return("False")
            /\ UNCHANGED <<log, intr, exit_status>>
    /\ UNCHANGED <<folders, ocr_calls, conv, pic, bat, mn>>

----------------------------------------------------------------------------
\* PDFc_Searchable_only.py: process_in_chunks.

PIC == "process_in_chunks"

ChunkPath(chunk_num) == <<"chunk", chunk_num>>
SearchableChunkPath(chunk_num) == <<"searchable_chunk", chunk_num>>

Min(x, y) == IF x < y THEN x ELSE y

\* Mutant: the end of the range taken as inclusive.
ChunkEnd_OffByOne(start_page, pages_per_chunk, total_pages) ==
    Min(start_page + pages_per_chunk - 1, total_pages)

\* end_page = min(start_page + pages_per_chunk, total_pages)
ChunkEnd(start_page, pages_per_chunk, total_pages) ==
    Min(start_page + pages_per_chunk, total_pages)

\* chunk_num = chunks_processed + 1
ChunkNum(chunks_processed) == chunks_processed + 1

\* Mutant: the chunk file removed whatever the OCR pass returned.
RemovesChunk_Always(success) == TRUE

\* "if success: os.remove(chunk_path)"
RemovesChunk(success) == success

process_in_chunks_start ==
    /\ At(PIC, "start")
    /\ IF pic.input_pdf_path \notin DOMAIN files
       THEN /\ log' = Append(log, Msg("input_not_found", 0, 0))
            /\ Return("False")
            /\ UNCHANGED <<pic, folders>>
       ELSE /\ folders' = folders \cup {"output_folder"}
            /\ \E open_ok \in BOOLEAN :
                 \* fitz.open raising, or range() refusing a step of 0, ends
                 \* in the outer "except Exception"
                 IF open_ok /\ pic.pages_per_chunk # 0
                 THEN /\ pic' = [pic EXCEPT
                                   !.pdf_document = files[pic.input_pdf_path],
                                   !.total_pages = Len(files[pic.input_pdf_path])]
                      /\ log' = Append(log, Msg("opening", 0, 0))
                      /\ Goto("loop")
                 ELSE /\ log' = log \o <<Msg("opening", 0, 0), Msg("error_open", 0, 0)>>
                      /\ Return("False")
                      /\ UNCHANGED pic
    /\ UNCHANGED <<exit_status, files, intr, ocr_calls, conv, bat, mn>>

\* The loop body up to the call of create_searchable_pdf on the chunk.
process_in_chunks_chunk ==
    /\ At(PIC, "loop")
    /\ pic.start_page < pic.total_pages
    /\ \E save_ok \in BOOLEAN :
         LET end_page == ChunkEnd(pic.start_page, pic.pages_per_chunk, pic.total_pages)
             chunk_num == ChunkNum(pic.chunks_processed)
             chunk_pdf == SubSeq(pic.pdf_document, pic.start_page + 1, end_page)
         IN
         IF save_ok
         THEN /\ files' = Put(files, ChunkPath(chunk_num), chunk_pdf)
              /\ pic' = [pic EXCEPT !.ranges = Append(@,
                            [start_page |-> pic.start_page, end_page |-> end_page,
                             chunk_num |-> chunk_num, success |-> "pending"])]
              /\ conv' = ConvLocals(ChunkPath(chunk_num), SearchableChunkPath(chunk_num))
              /\ log' = Append(log, Msg("chunk_start", chunk_num, 0))
              /\ Call(CSP, "after_ocr")
         ELSE /\ log' = log \o <<Msg("chunk_start", chunk_num, 0), Msg("error_chunk_save", 0, 0)>>
              /\ Return("False")
              /\ UNCHANGED <<files, pic, conv>>
    /\ UNCHANGED <<exit_status, folders, intr, ocr_calls, bat, mn>>

\* The loop body after create_searchable_pdf has returned.
process_in_chunks_after_ocr ==
    /\ At(PIC, "after_ocr")
    /\ LET success == ret = "True"
           this == pic.ranges[Len(pic.ranges)]
       IN
       /\ files' = IF RemovesChunk(success)
                   THEN Del(files, {ChunkPath(this.chunk_num)})
                   ELSE files
       /\ pic' = [pic EXCEPT
                    !.chunks_processed = IF success THEN @ + 1 ELSE @,
                    !.start_page = @ + pic.pages_per_chunk,
                    !.ranges[Len(pic.ranges)].success =
                        IF success THEN "True" ELSE "False"]
       /\ log' = Append(log, Msg(IF success THEN "chunk_completed" ELSE "chunk_failed",
                                 this.chunk_num, 0))
    /\ Goto("loop")
    /\ UNCHANGED <<exit_status, folders, intr, ocr_calls, conv, bat, mn>>

process_in_chunks_end ==
    /\ At(PIC, "loop")
    /\ pic.start_page >= pic.total_pages
    /\ log' = log \o <<Msg("complete", 0, 0),
                       Msg("processed_chunks", pic.chunks_processed, 0)>>
    /\ Return("True")
    /\ UNCHANGED <<exit_status, files, folders, intr, ocr_calls, conv, pic, bat, mn>>

----------------------------------------------------------------------------
\* PDFconverter.py: the two ocrmypdf conversions and the batch loop.

CONV == "convert_ocr_pdf_to_editable"
SIMPLE == "simple_ocr_conversion"
BATCH == "batch_convert_pdfs"

\* What ocrmypdf.ocr writes for a document: every page, with a text layer.
OcrDoc(d) == [i \in 1..Len(d) |-> Page(d[i].src, "searchable")]

\* Mutant: convert_ocr_pdf_to_editable without its os.path.exists guard.
ChecksInputExists_Never(f) == FALSE

\* convert_ocr_pdf_to_editable checks os.path.exists before anything else;
\* simple_ocr_conversion has no such check and hands the path to ocrmypdf.
ChecksInputExists(f) == f = CONV

\* One call of ocrmypdf.ocr inside "try ... except Exception".
OcrmypdfConversion(f) ==
    /\ At(f, "start")
    /\ IF ChecksInputExists(f) /\ conv.input_pdf_path \notin DOMAIN files
       THEN /\ log' = Append(log, Msg("input_not_found", 0, 0))
            /\ Return("False")
            /\ UNCHANGED <<files, ocr_calls, intr, exit_status>>
       ELSE /\ ocr_calls' = ocr_calls + 1
            /\ IF conv.input_pdf_path \notin DOMAIN files
               THEN \* ocrmypdf raises on the missing input
                    /\ log' = log \o <<Msg("processing", 0, 0), Msg("error_ocrmypdf", 0, 0)>>
                    /\ Return("False")
                    /\ UNCHANGED <<files, intr, exit_status>>
               ELSE \E o \in {"ok", "error", "interrupt"} :
                      CASE o = "ok" ->
                             /\ files' = Put(files, conv.output_pdf_path,
                                             OcrDoc(files[conv.input_pdf_path]))
                             /\ log' = log \o <<Msg("processing", 0, 0), Msg("success", 0, 0)>>
                             /\ Return("True")
                             /\ UNCHANGED <<intr, exit_status>>
                        [] o = "error" ->
                             /\ log' = log \o <<Msg("processing", 0, 0), Msg("error_ocrmypdf", 0, 0)>>
                             /\ Return("False")
                             /\ UNCHANGED <<files, intr, exit_status>>
                        [] o = "interrupt" ->
                             /\ RaiseKeyboardInterrupt
                             /\ UNCHANGED files
    /\ UNCHANGED <<folders, conv, pic, bat, mn>>

convert_ocr_pdf_to_editable_run == OcrmypdfConversion(CONV)

simple_ocr_conversion_run == OcrmypdfConversion(SIMPLE)

\* input_path.glob("*.pdf"): the PDF files of the input folder, in order.
InputFolderFiles(f) ==
    LET k == Cardinality({p \in DOMAIN f : p[1] = "in"})
    IN  [i \in 1..k |-> InPath(i)]

batch_convert_pdfs_start ==
    /\ At(BATCH, "start")
    /\ folders' = folders \cup {"output_folder"}
    /\ LET pdf_files == InputFolderFiles(files) IN
       IF Len(pdf_files) = 0
       THEN /\ log' = Append(log, Msg("no_pdf_files", 0, 0))
            /\ Return("None")
            /\ UNCHANGED bat
       ELSE /\ bat' = [bat EXCEPT !.pdf_files = pdf_files]
            /\ log' = Append(log, Msg("found", Len(pdf_files), 0))
            /\ Goto("loop")
    /\ UNCHANGED <<exit_status, files, intr, ocr_calls, conv, pic, mn>>

batch_convert_pdfs_file ==
    /\ At(BATCH, "loop")
    /\ bat.idx < Len(bat.pdf_files)
    /\ bat' = [bat EXCEPT !.idx = @ + 1]
    /\ conv' = ConvLocals(bat.pdf_files[bat.idx + 1], OutPath(bat.idx + 1))
    /\ log' = Append(log, Msg("batch_processing", bat.idx + 1, 0))
    /\ Call(CONV, "after_convert")
    /\ UNCHANGED <<exit_status, files, folders, intr, ocr_calls, pic, mn>>

\* Mutant: a tally that counts the successful conversions only.
Tally_SuccessOnly(b, success) ==
    IF success THEN [b EXCEPT !.successful = @ + 1] ELSE b

\* The two counters of the batch loop after one conversion.
Tally(b, success) ==
    IF success
    THEN [b EXCEPT !.successful = @ + 1]
    ELSE [b EXCEPT !.failed = @ + 1]

batch_convert_pdfs_after ==
    /\ At(BATCH, "after_convert")
    /\ bat' = Tally(bat, ret = "True")
    /\ Goto("loop")
    /\ UNCHANGED <<exit_status, files, folders, log, intr, ocr_calls, conv, pic, mn>>

batch_convert_pdfs_end ==
    /\ At(BATCH, "loop")
    /\ bat.idx = Len(bat.pdf_files)
    /\ log' = Append(log, Msg("batch_complete", bat.successful, bat.failed))
    /\ Return("None")
    /\ UNCHANGED <<exit_status, files, folders, intr, ocr_calls, conv, pic, bat, mn>>

----------------------------------------------------------------------------
\* make_pdf_editable.py: main().

MPE == "make_pdf_editable_main"

\* The argument handling: sys.argv, or two prompts, each of which exits with
\* status 1 on an empty answer; then the os.path.exists guard.
make_pdf_editable_args ==
    /\ At(MPE, "start")
    /\ \E input_given \in BOOLEAN, output_given \in BOOLEAN :
         IF ~input_given \/ ~output_given
         THEN /\ log' = Append(log, Msg("no_file_provided", 0, 0))
              /\ exit_status' = "exit1"
              /\ Return("None")
         ELSE IF conv.input_pdf_path \notin DOMAIN files
         THEN /\ log' = Append(log, Msg("input_not_found", 0, 0))
              /\ exit_status' = "exit1"
              /\ Return("None")
         ELSE /\ log' = Append(log, Msg("processing", 0, 0))
              /\ Goto("ocr")
              /\ UNCHANGED exit_status
    /\ UNCHANGED <<files, folders, intr, ocr_calls, conv, pic, bat, mn>>

\* ocrmypdf.ocr outside any try: an exception ends the process.
make_pdf_editable_ocr ==
    /\ At(MPE, "ocr")
    /\ ocr_calls' = ocr_calls + 1
    /\ \E o \in {"ok", "error", "interrupt"} :
         CASE o = "ok" ->
                /\ files' = Put(files, conv.output_pdf_path,
                                OcrDoc(files[conv.input_pdf_path]))
                /\ log' = Append(log, Msg("success", 0, 0))
                /\ Return("None")
                /\ UNCHANGED <<intr, exit_status>>
           [] o = "error" ->
                /\ exit_status' = "crashed"
                /\ Return("None")
                /\ UNCHANGED <<files, log, intr>>
           [] o = "interrupt" ->
                /\ RaiseKeyboardInterrupt
                /\ UNCHANGED files
    /\ UNCHANGED <<folders, conv, pic, bat, mn>>

----------------------------------------------------------------------------
\* The __main__ blocks of the three interactive scripts.

\* A PDF outside the working directory, for the path the user may type.
ExtPath == <<"ext", 1>>
TxtPath == <<"txt", 1>>
SimplePath == <<"simple", 1>>
NoPath == <<"none", 0>>

\* Mutant: a probe whose result is printed and ignored.
GoesOnAfterProbe_Always(script, probe_ok, continue_anyway) == TRUE

\* Whether the script goes on after its dependency probe.  The two PDFc
\* scripts call sys.exit(1) when check_dependencies() is False; PDFconverter
\* asks "Continue? (y/n)" when check_tesseract() is False and exits only on
\* an answer other than y / yes.
GoesOnAfterProbe(script, probe_ok, continue_anyway) ==
    IF script = MAIN_PC
    THEN probe_ok \/ continue_anyway
    ELSE probe_ok

\* The dependency probe at the top of a script.
ScriptProbe(script) ==
    /\ At(script, "start")
    /\ \E probe_ok \in BOOLEAN, continue_anyway \in BOOLEAN :
         /\ mn' = [mn EXCEPT
                     !.probe = IF probe_ok THEN "ok" ELSE "missing",
                     !.continue_anyway =
                        IF script = MAIN_PC /\ ~probe_ok
                        THEN (IF continue_anyway THEN "y" ELSE "n")
                        ELSE "na"]
         /\ IF GoesOnAfterProbe(script, probe_ok, continue_anyway)
            THEN /\ Goto("list")
                 /\ log' = Append(log, Msg(IF probe_ok THEN "probe_ok" ELSE "probe_missing", 0, 0))
                 /\ UNCHANGED exit_status
            ELSE /\ Exit("exit1")
                 /\ log' = Append(log, Msg("probe_missing", 0, 0))
    /\ UNCHANGED <<files, folders, intr, ocr_calls, conv, pic, bat>>

PDFc_Searchable_only_probe == ScriptProbe(MAIN_SO)
PDFc_SearchableandEditable_probe == ScriptProbe(MAIN_SE)
PDFconverter_probe == ScriptProbe(MAIN_PC)

\* What an invalid answer to the "Select PDF" prompt, or a typed path that
\* does not exist, does: the PDFc scripts exit (Searchable_only with status 1,
\* SearchableandEditable with status 1 for a bad path and an uncaught
\* ValueError / IndexError for a bad choice); PDFconverter prints and goes to
\* its last line.
BadSelection(script, typed) ==
    CASE script = MAIN_SO -> "exit1"
      [] script = MAIN_SE -> IF typed THEN "exit1" ELSE "crashed"
      [] script = MAIN_PC -> "completed"

\* The file listing of the working directory and the selection of the input.
\* With no PDF there, the user types a path (pick = 0 stands for one that
\* exists elsewhere); with PDFs, pick is the 1-based choice.  A pick that is
\* neither is an invalid answer.
ScriptSelect(script) ==
    /\ At(script, "list")
    /\ LET pdf_files == InputFolderFiles(files) IN
       \E pick \in -1..Len(pdf_files) :
         LET typed == Len(pdf_files) = 0
             valid == IF typed THEN pick = 0 ELSE pick >= 1
             chosen == IF typed THEN ExtPath ELSE pdf_files[pick]
             \* the PDFc scripts do not prompt when there is one file
             prompts == typed \/ script = MAIN_PC \/ Len(pdf_files) > 1
         IN
         /\ (~prompts => pick = 1)
         /\ IF valid
            THEN /\ mn' = [mn EXCEPT !.selected_file = chosen]
                 /\ Goto(CASE script = MAIN_SO -> "method"
                           [] script = MAIN_SE -> "confirm"
                           [] script = MAIN_PC -> IF typed THEN "convert_path" ELSE "confirm")
                 /\ UNCHANGED <<exit_status, log>>
            ELSE /\ log' = Append(log, Msg("invalid_selection", 0, 0))
                 /\ UNCHANGED mn
                 /\ IF BadSelection(script, typed) = "completed"
                    THEN Goto("completed") /\ UNCHANGED exit_status
                    ELSE Exit(BadSelection(script, typed))
    /\ UNCHANGED <<files, folders, intr, ocr_calls, conv, pic, bat>>

PDFc_Searchable_only_select == ScriptSelect(MAIN_SO)
PDFc_SearchableandEditable_select == ScriptSelect(MAIN_SE)
PDFconverter_select == ScriptSelect(MAIN_PC)

\* The last lines of a script: "Script completed" and the wait for Enter.
ScriptCompleted(script) ==
    /\ At(script, "completed")
    /\ log' = Append(log, Msg("script_completed", 0, 0))
    /\ Exit("exit0")
    /\ UNCHANGED <<files, folders, intr, ocr_calls, conv, pic, bat, mn>>

PDFc_Searchable_only_completed == ScriptCompleted(MAIN_SO)
PDFc_SearchableandEditable_completed == ScriptCompleted(MAIN_SE)
PDFconverter_completed == ScriptCompleted(MAIN_PC)

\* A conversion call returned to the script: the result is noted.
NoteResult(m) == [m EXCEPT !.results = Append(@, ret)]

NoteCall(m, f) == [m EXCEPT !.calls = Append(@, f)]

\* PDFc_Searchable_only.py: the method menu inside
\* "try ... except ValueError ... except KeyboardInterrupt".
PDFc_Searchable_only_method ==
    /\ At(MAIN_SO, "method")
    /\ \E method \in {"1", "2", "3", "other", "invalid"}, confirm \in BOOLEAN,
          pages_per_chunk \in -1..MaxChunk :
         /\ (method # "1" => confirm)
         /\ (method # "3" => pages_per_chunk = 0)
         /\ CASE method = "1" /\ confirm ->
                   /\ conv' = ConvLocals(mn.selected_file, OutPath(1))
                   /\ mn' = NoteCall(mn, CSP)
                   /\ Call(CSP, "after_call")
                   /\ UNCHANGED <<pic, log>>
              [] method = "2" ->
                   /\ conv' = ConvLocals(mn.selected_file, TxtPath)
                   /\ mn' = NoteCall(mn, ETO)
                   /\ Call(ETO, "after_call")
                   /\ UNCHANGED <<pic, log>>
              [] method = "3" /\ pages_per_chunk >= 0 ->
                   /\ pic' = PicLocals(mn.selected_file, pages_per_chunk)
                   /\ mn' = NoteCall(mn, PIC)
                   /\ Call(PIC, "after_call")
                   /\ UNCHANGED <<conv, log>>
              [] OTHER ->
                   \* no conversion, an invalid method, or int() raising
                   /\ log' = IF method = "1" THEN log
                             ELSE Append(log, Msg("invalid_input", 0, 0))
                   /\ Goto("completed")
                   /\ UNCHANGED <<conv, pic, mn>>
    /\ UNCHANGED <<exit_status, files, folders, intr, ocr_calls, bat>>

PDFc_Searchable_only_after_call ==
    /\ At(MAIN_SO, "after_call")
    /\ mn' = NoteResult(mn)
    /\ Goto("completed")
    /\ UNCHANGED <<exit_status, files, folders, log, intr, ocr_calls, conv, pic, bat>>

\* PDFc_SearchableandEditable.py: "Proceed? (y/n)" and create_editable_pdf.
PDFc_SearchableandEditable_confirm ==
    /\ At(MAIN_SE, "confirm")
    /\ \E confirm \in BOOLEAN :
         IF confirm
         THEN /\ conv' = ConvLocals(mn.selected_file, OutPath(1))
              /\ mn' = NoteCall(mn, CEP)
              /\ Call(CEP, "after_call")
         ELSE /\ Goto("completed")
              /\ UNCHANGED <<conv, mn>>
    /\ UNCHANGED <<exit_status, files, folders, log, intr, ocr_calls, pic, bat>>

PDFc_SearchableandEditable_after_call ==
    /\ At(MAIN_SE, "after_call")
    /\ mn' = NoteResult(mn)
    /\ log' = IF ret = "True" THEN Append(log, Msg("created", 0, 0)) ELSE log
    /\ Goto("completed")
    /\ UNCHANGED <<exit_status, files, folders, intr, ocr_calls, conv, pic, bat>>

\* Mutant: the simple method called after the first conversion whatever it
\* returned.
NextAttempt_AfterAnyResult(results) ==
    CASE results = <<>> -> CONV
      [] Len(results) = 1 -> SIMPLE
      [] OTHER -> "none"

\* PDFconverter.py: which conversion the script calls next on the selected
\* file, given the results so far: convert_ocr_pdf_to_editable first, and
\* simple_ocr_conversion once if that returned False.
NextAttempt(results) ==
    CASE results = <<>> -> CONV
      [] results = <<"False">> -> SIMPLE
      [] OTHER -> "none"

\* "Proceed? (y/n)" for a listed file (inside the try), or the direct call for
\* a typed path (outside it).
PDFconverter_convert ==
    /\ \/ At(MAIN_PC, "confirm")
       \/ At(MAIN_PC, "convert_path")
    /\ \E confirm \in BOOLEAN :
         /\ (Top.pc = "convert_path" => confirm)
         /\ IF confirm
            THEN /\ conv' = ConvLocals(mn.selected_file, OutPath(1))
                 /\ mn' = NoteCall(mn, NextAttempt(mn.results))
                 /\ Call(NextAttempt(mn.results),
                         IF Top.pc = "confirm" THEN "after_convert" ELSE "after_convert_path")
                 /\ UNCHANGED log
            ELSE /\ log' = Append(log, Msg("cancelled", 0, 0))
                 /\ Goto("completed")
                 /\ UNCHANGED <<conv, mn>>
    /\ UNCHANGED <<exit_status, files, folders, intr, ocr_calls, pic, bat>>

\* "if not success:" the simple method is tried on the same input.
PDFconverter_after_convert ==
    /\ \/ At(MAIN_PC, "after_convert")
       \/ At(MAIN_PC, "after_convert_path")
    /\ LET results == Append(mn.results, ret) IN
       IF NextAttempt(results) = "none"
       THEN /\ mn' = NoteResult(mn)
            /\ Goto("completed")
            /\ UNCHANGED <<conv, log>>
       ELSE /\ conv' = ConvLocals(mn.selected_file, SimplePath)
            /\ mn' = NoteCall(NoteResult(mn), NextAttempt(results))
            \* "Trying ultra-simple OCR method..." is printed for a listed file only
            /\ log' = IF Top.pc = "after_convert"
                      THEN Append(log, Msg("trying_simple", 0, 0))
                      ELSE log
            /\ Call(NextAttempt(results),
                    IF Top.pc = "after_convert" THEN "after_simple" ELSE "after_simple_path")
    /\ UNCHANGED <<exit_status, files, folders, intr, ocr_calls, pic, bat>>

PDFconverter_after_simple ==
    /\ \/ At(MAIN_PC, "after_simple")
       \/ At(MAIN_PC, "after_simple_path")
    /\ mn' = NoteResult(mn)
    /\ Goto("completed")
    /\ UNCHANGED <<exit_status, files, folders, log, intr, ocr_calls, conv, pic, bat>>

----------------------------------------------------------------------------
\* The programs and their arguments.

\* The conversion functions, each called directly with its arguments.
SingleFileCalls == {CSP, ETO, RL, TO, TF, CEP, PIC, CONV, SIMPLE, MPE}

FolderCalls == {BATCH}

Scripts == {MAIN_SO, MAIN_SE, MAIN_PC}

\* The PDF files a run starts with: k documents of n pages each, and for a
\* script one more outside the working directory.
InitialFiles(prog, k, n) ==
    [p \in {InPath(i) : i \in 1..k} \cup (IF prog \in Scripts THEN {ExtPath} ELSE {})
       |-> OrigDoc(n)]

InitWith(prog, k, n, ppc) ==
    /\ stack = <<[fn |-> prog, pc |-> "start"]>>
    /\ ret = "None"
    /\ exit_status = "running"
    /\ files = InitialFiles(prog, k, n)
    /\ folders = {}
    /\ log = <<>>
    /\ intr = FALSE
    /\ ocr_calls = 0
    /\ conv = ConvLocals(InPath(1), OutPath(1))
    /\ pic = PicLocals(InPath(1), ppc)
    /\ bat = BatLocals
    /\ mn = MainLocals

\* A run that calls one conversion function directly.
Init ==
    \E k \in 0..MaxFiles, n \in 1..MaxPages :
       \/ \E prog \in SingleFileCalls \ {PIC} : k <= 1 /\ InitWith(prog, k, n, 0)
       \/ \E ppc \in 0..MaxChunk : k <= 1 /\ InitWith(PIC, k, n, ppc)
       \/ \E prog \in FolderCalls : n = 1 /\ InitWith(prog, k, n, 0)

\* A run of one of the interactive scripts.
InitScripts ==
    \E k \in 0..MaxFiles, n \in 1..MaxPages, prog \in Scripts : InitWith(prog, k, n, 0)

\* The steps of the conversion functions the scripts call.
CalledNext ==
    \/ create_searchable_pdf_start
    \/ create_searchable_pdf_page
    \/ create_searchable_pdf_save
    \/ extract_text_only_start
    \/ extract_text_only_page
    \/ extract_text_only_save
    \/ create_editable_pdf_start
    \/ create_editable_pdf_page
    \/ create_editable_pdf_finish
    \/ process_in_chunks_start
    \/ process_in_chunks_chunk
    \/ process_in_chunks_after_ocr
    \/ process_in_chunks_end
    \/ convert_ocr_pdf_to_editable_run
    \/ simple_ocr_conversion_run

\* The steps of the functions no script calls.
UncalledNext ==
    \/ create_pdf_with_reportlab_start
    \/ create_pdf_with_reportlab_page
    \/ create_pdf_with_reportlab_save
    \/ create_text_only_pdf_clean_start
    \/ create_text_only_pdf_clean_page
    \/ create_text_only_pdf_clean_save
    \/ extract_to_text_file_start
    \/ extract_to_text_file_page
    \/ extract_to_text_file_save
    \/ batch_convert_pdfs_start
    \/ batch_convert_pdfs_file
    \/ batch_convert_pdfs_after
    \/ batch_convert_pdfs_end
    \/ make_pdf_editable_args
    \/ make_pdf_editable_ocr

ScriptNext ==
    \/ PDFc_Searchable_only_probe
    \/ PDFc_Searchable_only_select
    \/ PDFc_Searchable_only_method
    \/ PDFc_Searchable_only_after_call
    \/ PDFc_Searchable_only_completed
    \/ PDFc_SearchableandEditable_probe
    \/ PDFc_SearchableandEditable_select
    \/ PDFc_SearchableandEditable_confirm
    \/ PDFc_SearchableandEditable_after_call
    \/ PDFc_SearchableandEditable_completed
    \/ PDFconverter_probe
    \/ PDFconverter_select
    \/ PDFconverter_convert
    \/ PDFconverter_after_convert
    \/ PDFconverter_after_simple
    \/ PDFconverter_completed

Next == CalledNext \/ UncalledNext

Spec == Init /\ [][Next]_vars

SpecScripts == InitScripts /\ [][CalledNext \/ ScriptNext]_vars

----------------------------------------------------------------------------
\* PDFc_SearchableandEditable.py: the text layer of one page of
\* create_editable_pdf (the loop over boxes['text']).

\* Characters that str.strip() removes and str.split() splits at.
Whitespace == {" ", "\t"}

\* str.strip() on a string kept as a sequence of characters.
RECURSIVE LStrip(_)
LStrip(t) ==
    IF t = <<>> THEN <<>>
    ELSE IF t[1] \in Whitespace THEN LStrip(SubSeq(t, 2, Len(t)))
    ELSE t

RECURSIVE RStrip(_)
RStrip(t) ==
    IF t = <<>> THEN <<>>
    ELSE IF t[Len(t)] \in Whitespace THEN RStrip(SubSeq(t, 1, Len(t) - 1))
    ELSE t

Strip(t) == RStrip(LStrip(t))

Max(x, y) == IF x > y THEN x ELSE y

Abs(x) == IF x < 0 THEN -x ELSE x

\* Lengths on the page are kept exact: a length of q points at a given dpi is
\* the integer q * dpi * 1000.  px * 72.0 / dpi is then px * 72 * 1000, and
\* the constant q points is q * dpi * 1000.
PointsOf(px) == px * 72 * 1000

Points(q, dpi) == q * dpi * 1000

\* The bounds of "font_size = max(min(font_size, 14), 8)".
MinFontSize == 8
MaxFontSize == 14

\* Mutant: the box height taken as the font size, without the bounds.
FontSize_Unclamped(height, dpi) == PointsOf(height)

\* font_size = boxes['height'][i] * 72.0 / dpi, then max(min(font_size, 14), 8)
FontSize(height, dpi) ==
    Max(Min(PointsOf(height), Points(MaxFontSize, dpi)), Points(MinFontSize, dpi))

\* x = boxes['left'][i] * 72.0 / dpi
XOf(b) == PointsOf(b.left)

\* Mutant: the raster y kept, the axis not flipped.
YOf_NotFlipped(b, image_height) == PointsOf(b.top + b.height)

\* y = page_height - (boxes['top'][i] + boxes['height'][i]) * 72.0 / dpi, with
\* page_height = image.height * 72.0 / dpi
YOf(b, image_height) == PointsOf(image_height) - PointsOf(b.top + b.height)

\* The width of " " in Helvetica, in thousandths of the font size.
HelveticaSpace == 278

\* space_width = c.stringWidth(" ", "Helvetica", font_size)
SpaceWidth(font_size) == (font_size \div 1000) * HelveticaSpace

\* Mutant: the distance of the baselines taken with its sign.
SameLine_Signed(prev, cur, dpi, image_height) ==
    2 * (YOf(cur, image_height) - YOf(prev, image_height)) < FontSize(cur.height, dpi)

\* "if abs(y - prev_y) < font_size/2:  # Same line", cur being entry i and
\* prev entry i-1; font_size is that of cur.
SameLine(prev, cur, dpi, image_height) ==
    2 * Abs(YOf(cur, image_height) - YOf(prev, image_height)) < FontSize(cur.height, dpi)

\* "if (x - (prev_x + prev_width)) < space_width * 3"
CloseToPrev(prev, cur, dpi) ==
    XOf(cur) - (XOf(prev) + PointsOf(prev.width)) < 3 * SpaceWidth(FontSize(cur.height, dpi))

\* "x += space_width" under "if i > 0", the same-line test and the gap test.
\* i is 1-based here.
AddsSpace(boxes, i, dpi, image_height) ==
    /\ i > 1
    /\ SameLine(boxes[i - 1], boxes[i], dpi, image_height)
    /\ CloseToPrev(boxes[i - 1], boxes[i], dpi)

\* Mutant: the word drawn at its box's left edge whatever precedes it.
DrawX_NoSpacing(boxes, i, dpi, image_height) == XOf(boxes[i])

\* The x handed to c.drawString for entry i.
DrawX(boxes, i, dpi, image_height) ==
    XOf(boxes[i]) + (IF AddsSpace(boxes, i, dpi, image_height)
                     THEN SpaceWidth(FontSize(boxes[i].height, dpi))
                     ELSE 0)

\* Mutant: the confidence of the entry not looked at.
DrawsEntry_AnyConfidence(b) == Strip(b.text) # <<>>

\* "if boxes['conf'][i] > 0:" and, for word = boxes['text'][i].strip(),
\* "if word:".
DrawsEntry(b) == b.conf > 0 /\ Strip(b.text) # <<>>


\* The longest boxes['text'] of a page.
MaxBoxes == 3

\* The two resolutions the script offers for create_editable_pdf.
DpiValues == {200, 300}

\* The pixel height of the rasterized page.
ImageHeights == {1100}

Word == <<"w", "o", "r", "d">>

\* <<top, height>> of the word boxes: three small boxes 12 pixels apart, a
\* taller one and one far taller than any glyph.
BoxGeometries == {<<0, 10>>, <<12, 10>>, <<24, 10>>, <<0, 55>>, <<0, 1000>>}

\* Entries of image_to_data that carry a recognized word.
WordBoxes ==
    {[conf |-> 95, text |-> Word, left |-> l, top |-> g[1], width |-> 40, height |-> g[2]] :
        l \in {0, 100}, g \in BoxGeometries}

\* Entries without a usable word: confidence 0, the -1 of a block or line
\* entry with empty text, and text that is only whitespace.
NoiseBoxes ==
    {[conf |-> k[1], text |-> k[2], left |-> 0, top |-> 0, width |-> 40, height |-> 10] :
        k \in {<<0, Word>>, <<-1, <<>>  >>, <<95, <<" ">> >>}}

BoxCatalogue == WordBoxes \cup NoiseBoxes

\* The locals of the iteration of the page loop that composes page_num.
TextLayerLocals(dpi, image_height, boxes) ==
    [dpi |-> dpi, image_height |-> image_height, boxes |-> boxes, i |-> 0,
     draws |-> <<>>, page_num |-> 0, successful_pages |-> 0, page_paths |-> <<>>]

\* One pass of "for i in range(len(boxes['text']))": the entry is skipped, or
\* c.drawString(x, y, word) is called; an exception from the canvas goes to
\* the per-page handler, which prints and moves to the next page.
create_editable_pdf_text_entry ==
    /\ At(CEP, "text_layer")
    /\ conv.i < Len(conv.boxes)
    /\ LET i == conv.i + 1
           b == conv.boxes[i]
       IN
       IF DrawsEntry(b)
       THEN \E raised \in BOOLEAN :
              IF raised
              THEN /\ log' = Append(log, Msg("status_error", conv.page_num + 1, 0))
                   /\ Goto("page_failed")
                   /\ UNCHANGED conv
              ELSE /\ conv' = [conv EXCEPT
                                 !.i = i,
                                 !.draws = Append(@,
                                    [i |-> i, word |-> Strip(b.text),
                                     x |-> DrawX(conv.boxes, i, conv.dpi, conv.image_height),
                                     y |-> YOf(b, conv.image_height),
                                     font_size |-> FontSize(b.height, conv.dpi)])]
                   /\ Goto("text_layer")
                   /\ UNCHANGED log
       ELSE /\ conv' = [conv EXCEPT !.i = i]
            /\ Goto("text_layer")
            /\ UNCHANGED log
    /\ UNCHANGED <<exit_status, files, folders, intr, ocr_calls, pic, bat, mn>>

\* After the loop: c.save(), page_paths.append(temp_pdf), successful_pages += 1.
create_editable_pdf_page_composed ==
    /\ At(CEP, "text_layer")
    /\ conv.i = Len(conv.boxes)
    /\ \E saved \in BOOLEAN :
         IF saved
         THEN /\ conv' = RecordPage(conv, TempDirPdf(conv.page_num))
              /\ files' = Put(files, TempDirPdf(conv.page_num),
                              <<Page(conv.page_num + 1, "editable")>>)
              /\ log' = Append(log, Msg("status_ok", conv.page_num + 1, 0))
              /\ Goto("page_composed")
         ELSE /\ log' = Append(log, Msg("status_error", conv.page_num + 1, 0))
              /\ Goto("page_failed")
              /\ UNCHANGED <<conv, files>>
    /\ UNCHANGED <<exit_status, folders, intr, ocr_calls, pic, bat, mn>>

\* A page of create_editable_pdf whose OCR gave text, an image and boxes, at
\* the start of its text layer.
InitTextLayer ==
    \E dpi \in DpiValues, image_height \in ImageHeights, n \in 1..MaxBoxes :
      \E boxes \in [1..n -> BoxCatalogue] :
        /\ stack = <<[fn |-> CEP, pc |-> "text_layer"]>>
        /\ ret = "None"
        /\ exit_status = "running"
        /\ files = InitialFiles(CEP, 1, 1)
        /\ folders = {}
        /\ log = <<Msg("opening", 0, 0)>>
        /\ intr = FALSE
        /\ ocr_calls = 1
        /\ conv = TextLayerLocals(dpi, image_height, boxes)
        /\ pic = PicLocals(InPath(1), 0)
        /\ bat = BatLocals
        /\ mn = MainLocals

TextLayerNext ==
    \/ create_editable_pdf_text_entry
    \/ create_editable_pdf_page_composed

SpecTextLayer == InitTextLayer /\ [][TextLayerNext]_vars

----------------------------------------------------------------------------
\* PDFc_SearchableandEditable.py: the text branch of one page of
\* create_text_only_pdf_clean (paragraph detection, heading test, word-wrap,
\* drawing).  Strings are sequences of characters.

\* The characters a line can end with to close its paragraph.
SentenceEndings == {".", "!", "?", ":", ";"}

\* "len(line) < 40"
ShortLineLength == 40

\* Mutant: a paragraph closed by punctuation only.
ClosesParagraph_PunctuationOnly(line) == line[Len(line)] \in SentenceEndings

\* "line.endswith(('.', '!', '?', ':', ';')) or len(line) < 40", for a
\* stripped line that is not empty.
ClosesParagraph(line) ==
    line[Len(line)] \in SentenceEndings \/ Len(line) < ShortLineLength

\* ' '.join(parts)
RECURSIVE Join(_)
Join(parts) ==
    IF parts = <<>> THEN <<>>
    ELSE IF Len(parts) = 1 THEN parts[1]
    ELSE parts[1] \o <<" ">> \o Join(SubSeq(parts, 2, Len(parts)))

\* str.split(): the maximal runs of characters that are not whitespace.
RECURSIVE Split(_)
Split(t) ==
    LET u == LStrip(t) IN
    IF u = <<>> THEN <<>>
    ELSE LET stops == {j \in 1..Len(u) : u[j] \in Whitespace}
             n == IF stops = {} THEN Len(u)
                  ELSE (CHOOSE j \in stops : \A k \in stops : j <= k) - 1
         IN <<SubSeq(u, 1, n)>> \o Split(SubSeq(u, n + 1, Len(u)))

UpperCase ==
    {"A", "B", "C", "D", "E", "F", "G", "H", "I", "J", "K", "L", "M",
     "N", "O", "P", "Q", "R", "S", "T", "U", "V", "W", "X", "Y", "Z"}

LowerCase ==
    {"a", "b", "c", "d", "e", "f", "g", "h", "i", "j", "k", "l", "m",
     "n", "o", "p", "q", "r", "s", "t", "u", "v", "w", "x", "y", "z"}

\* str.isupper(): no lower-case character and at least one upper-case one.
IsUpper(t) ==
    /\ \E j \in 1..Len(t) : t[j] \in UpperCase
    /\ \A j \in 1..Len(t) : t[j] \notin LowerCase

\* "len(paragraph) < 60"
HeadingLength == 60

\* Mutant: every short paragraph taken as a heading.
IsHeader_LengthOnly(paragraph) == Len(paragraph) < HeadingLength

\* is_header = len(paragraph) < 60 and paragraph.isupper()
IsHeader(paragraph) == Len(paragraph) < HeadingLength /\ IsUpper(paragraph)

\* letter, in points, and the one-inch margins.
PageWidth == 612
PageHeight == 792
Margin == 72

\* right_margin - left_margin, in thousandths of a point.
UsableWidth == ((PageWidth - Margin) - Margin) * 1000

\* The fonts of the text page: the page header, a heading, body text.
HeaderFont == [name |-> "Helvetica-Bold", size |-> 14]
HeadingFont == [name |-> "Helvetica-Bold", size |-> 12]
BodyFont == [name |-> "Helvetica", size |-> 11]

\* The advance width of a character in thousandths of the font size, for the
\* characters of the model's texts (the Adobe metrics reportlab carries).
CharWidth(name, ch) ==
    IF name = "Helvetica"
    THEN CASE ch \in {" ", ".", ",", "!", ":", ";", "t", "\t"} -> 278
           [] ch \in {"i"} -> 222
           [] ch \in {"r"} -> 333
           [] ch \in {"c", "s", "x", "y"} -> 500
           [] ch \in {"A", "B", "E"} -> 667
           [] ch \in {"D", "H", "R"} -> 722
           [] ch \in {"M"} -> 833
           [] OTHER -> 556
    ELSE CASE ch \in {" ", ".", ",", "i", "\t"} -> 278
           [] ch \in {"!", ":", ";", "t"} -> 333
           [] ch \in {"r"} -> 389
           [] ch \in {"a", "c", "e", "s", "x", "y"} -> 556
           [] ch \in {"E"} -> 667
           [] ch \in {"A", "B", "D", "H", "R"} -> 722
           [] ch \in {"M"} -> 833
           [] OTHER -> 611

\* The widths CharWidth gives.
WidthValues == {222, 278, 333, 389, 500, 556, 611, 667, 722, 833}

\* The sum of the character widths of t, taken width by width.
RECURSIVE SumOfWidths(_, _)
SumOfWidths(ws, widths) ==
    IF ws = {} THEN 0
    ELSE LET w == CHOOSE v \in ws : TRUE IN
         w * Cardinality({j \in DOMAIN widths : widths[j] = w})
            + SumOfWidths(ws \ {w}, widths)

\* c.stringWidth(text, fontname, fontsize), in thousandths of a point.
StringWidth(t, font) ==
    SumOfWidths(WidthValues, [j \in 1..Len(t) |-> CharWidth(font.name, t[j])]) * font.size

\* Mutant: every word taken to fit the line.
Fits_Always(test_line, font) == TRUE

\* "if text_width < (right_margin - left_margin)"
Fits(test_line, font) == StringWidth(test_line, font) < UsableWidth

\* The loop "for word in words": lines holds the flushed lines and
\* current_line the words of the open one; the result is lines after the
\* last flush.  Lines are kept as lists of words.
RECURSIVE WrapWords(_, _, _, _)
WrapWords(words, font, lines, current_line) ==
    IF words = <<>>
    THEN IF current_line # <<>> THEN Append(lines, current_line) ELSE lines
    ELSE LET word == words[1]
             rest == SubSeq(words, 2, Len(words))
         IN
         IF Fits(Join(current_line \o <<word>>), font)
         THEN WrapWords(rest, font, lines, Append(current_line, word))
         ELSE WrapWords(rest, font,
                        IF current_line # <<>> THEN Append(lines, current_line) ELSE lines,
                        <<word>>)

\* One operation on the canvas.
CanvasOp(op, y, text, font) == [op |-> op, y |-> y, text |-> text, font |-> font]

\* top_margin - 30, where the text starts below a page header.
FirstLineY == (PageHeight - Margin) - 30

\* "for line in lines": a line is drawn at y_pos while y_pos is above the
\* bottom margin; otherwise a new page is started with its "(continued)"
\* header, and c.setFont(c._fontname, c._fontsize) leaves the header's font
\* in place.  st is [c, y_pos, font].
RECURSIVE DrawLines(_, _, _)
DrawLines(lines, line_height, st) ==
    IF lines = <<>> THEN st
    ELSE DrawLines(SubSeq(lines, 2, Len(lines)), line_height,
           IF st.y_pos > Margin
           THEN [st EXCEPT !.c = Append(@, CanvasOp("drawString", st.y_pos, Join(lines[1]), st.font)),
                           !.y_pos = @ - line_height]
           ELSE [st EXCEPT !.c = @ \o <<CanvasOp("showPage", 0, <<>>, st.font),
                                        CanvasOp("continued", PageHeight - Margin, <<>>, HeaderFont)>>,
                           !.y_pos = FirstLineY,
                           !.font = HeaderFont])

\* The locals of the iteration that lays out the text of page_num.
ReflowLocals(text_lines) ==
    [text_lines |-> text_lines, k |-> 0, current_para |-> <<>>, paragraphs |-> <<>>,
     p |-> 0, layout |-> <<>>, c |-> <<>>, y_pos |-> 0, font |-> BodyFont,
     page_num |-> 0, successful_pages |-> 0]

\* One pass of "for line in text.split('\n')".
create_text_only_pdf_clean_line ==
    /\ At(TO, "paragraphs")
    /\ conv.k < Len(conv.text_lines)
    /\ LET line == Strip(conv.text_lines[conv.k + 1]) IN
       conv' = [conv EXCEPT
                  !.k = @ + 1,
                  !.paragraphs =
                     IF line = <<>>
                     THEN (IF conv.current_para # <<>>
                           THEN Append(@, Join(conv.current_para)) ELSE @)
                     ELSE IF ClosesParagraph(line)
                     THEN Append(@, Join(Append(conv.current_para, line)))
                     ELSE @,
                  !.current_para =
                     IF line = <<>> \/ ClosesParagraph(line) THEN <<>> ELSE Append(@, line)]
    /\ Goto("paragraphs")
    /\ UNCHANGED <<exit_status, files, folders, log, intr, ocr_calls, pic, bat, mn>>

\* After the loop: the open paragraph is closed, the page header is drawn
\* and the cursor is put below it.
create_text_only_pdf_clean_header ==
    /\ At(TO, "paragraphs")
    /\ conv.k = Len(conv.text_lines)
    /\ conv' = [conv EXCEPT
                  !.paragraphs = IF conv.current_para # <<>>
                                 THEN Append(@, Join(conv.current_para)) ELSE @,
                  !.current_para = <<>>,
                  !.font = HeaderFont,
                  !.c = Append(@, CanvasOp("header", PageHeight - Margin, <<>>, HeaderFont)),
                  !.y_pos = FirstLineY]
    /\ Goto("layout")
    /\ UNCHANGED <<exit_status, files, folders, log, intr, ocr_calls, pic, bat, mn>>

\* One pass of "for paragraph in paragraphs": the heading test, the font, the
\* word-wrap, the drawing of the lines and the paragraph spacing.
create_text_only_pdf_clean_paragraph ==
    /\ At(TO, "layout")
    /\ conv.p < Len(conv.paragraphs)
    /\ LET paragraph == conv.paragraphs[conv.p + 1]
           is_header == IsHeader(paragraph)
           font == IF is_header THEN HeadingFont ELSE BodyFont
           line_height == IF is_header THEN 20 ELSE 14
           lines == WrapWords(Split(paragraph), font, <<>>, <<>>)
           drawn == DrawLines(lines, line_height,
                              [c |-> conv.c, y_pos |-> conv.y_pos, font |-> font])
       IN
       IF Strip(paragraph) = <<>>
       THEN conv' = [conv EXCEPT !.p = @ + 1]
       ELSE conv' = [conv EXCEPT
                       !.p = @ + 1,
                       !.layout = Append(@, [paragraph |-> paragraph,
                                             is_header |-> is_header, lines |-> lines]),
                       !.c = drawn.c,
                       !.font = drawn.font,
                       \* y_pos -= line_height * 0.5
                       !.y_pos = drawn.y_pos - line_height \div 2]
    /\ Goto("layout")
    /\ UNCHANGED <<exit_status, files, folders, log, intr, ocr_calls, pic, bat, mn>>

\* After the paragraphs: successful_pages += 1, the status mark, c.showPage().
create_text_only_pdf_clean_page_done ==
    /\ At(TO, "layout")
    /\ conv.p = Len(conv.paragraphs)
    /\ conv' = [conv EXCEPT !.successful_pages = @ + 1,
                            !.c = Append(@, CanvasOp("showPage", 0, <<>>, conv.font))]
    /\ log' = Append(log, Msg("status_ok", conv.page_num + 1, 0))
    /\ Goto("page_done")
    /\ UNCHANGED <<exit_status, files, folders, intr, ocr_calls, pic, bat, mn>>

\* The longest OCR text of a page, in lines.
MaxLines == 3

Chars(ch, n) == [j \in 1..n |-> ch]

HeaderLine == <<"H", "E", "A", "D", "E", "R">>
BodyLine == <<"B", "o", "d", "y", " ", "t", "e", "x", "t", " ", "t", "h", "a", "t", " ", "c", "o", "n", "t", "i", "n", "u", "e", "s", ".">>
MoreBodyLine == <<"M", "o", "r", "e", " ", "b", "o", "d", "y", ".">>

\* The text of the reflow example.
ExampleLines == <<HeaderLine, <<>>, BodyLine, MoreBodyLine>>

\* A line of 40 characters in four words.
FourWordLine ==
    Join(<<Chars("a", 10), Chars("a", 10), Chars("a", 10), Chars("a", 7)>>)

\* OCR lines of each kind the detection tells apart: only whitespace, 39 and
\* 40 characters without closing punctuation, lower and upper case, 38
\* characters between spaces, one word wider than the page, and 40 characters
\* ending with the character last.
LineCatalogue(last) ==
    {<<" ", " ">>, Chars("a", 39), FourWordLine, Chars("A", 40),
     <<" ">> \o Chars("a", 38) \o <<" ">>, Chars("a", 80), Chars("a", 39) \o <<last>>}

\* The number of headings, 20 points each and 10 points apart, that can be
\* drawn between the first line and the bottom margin.
HeadingsOnPage == (FirstLineY - Margin + 29) \div 30

\* A text that fills the page: h headings, then b lines of one word wider
\* than the page, which make one paragraph of b wrapped lines.
FilledPage(h, b) ==
    [i \in 1..(h + b) |-> IF i <= h THEN HeaderLine ELSE Chars("a", 80)]

\* Texts that end near the bottom margin, before it and past it.
FilledPages ==
    {FilledPage(h, b) : h \in (HeadingsOnPage - 2)..(HeadingsOnPage + 1),
                        b \in 0..(MaxLines + 1)}

\* A page of create_text_only_pdf_clean whose OCR gave text, at the start of
\* its paragraph detection.
InitReflow ==
    \E n \in 1..MaxLines, last \in SentenceEndings \cup {","} :
      \E text_lines \in [1..n -> LineCatalogue(last)] \cup {ExampleLines} \cup FilledPages :
        /\ stack = <<[fn |-> TO, pc |-> "paragraphs"]>>
        /\ ret = "None"
        /\ exit_status = "running"
        /\ files = InitialFiles(TO, 1, 1)
        /\ folders = {}
        /\ log = <<Msg("opening", 0, 0)>>
        /\ intr = FALSE
        /\ ocr_calls = 1
        /\ conv = ReflowLocals(text_lines)
        /\ pic = PicLocals(InPath(1), 0)
        /\ bat = BatLocals
        /\ mn = MainLocals

ReflowNext ==
    \/ create_text_only_pdf_clean_line
    \/ create_text_only_pdf_clean_header
    \/ create_text_only_pdf_clean_paragraph
    \/ create_text_only_pdf_clean_page_done

SpecReflow == InitReflow /\ [][ReflowNext]_vars

----------------------------------------------------------------------------
\* Properties.

\* The program is conversion function f, called directly.
Direct(f) == stack[1].fn = f

\* The program has ended.
Finished == Len(stack) = 1 /\ stack[1].pc = "done"

\* The input path names no file.
InputMissing == InPath(1) \notin DOMAIN files

OutputWritten == conv.output_pdf_path \in DOMAIN files

AnyError == \E m \in ErrorMsgs : Said(m)

\* Page k went through the per-page exception handler.
PageFailed(k) == \E i \in 1..Len(log) : log[i] = Msg("status_error", k, 0)

\* Source page k appears in document d.
Holds(d, k) == \E i \in 1..Len(d) : d[i].src = k

CeilDiv(x, y) == (x + y - 1) \div y

\* C1 (as stated; create_editable_pdf refutes it).  In a PDF-producing
\* conversion that read every page and met no other failure, a page whose OCR
\* gave no words does not make the call fail, and the page is in the output
\* file as a blank or image-only page.
C1_NoWordsPageAppears ==
    \A f \in {CSP, RL, TO, CEP} :
       ( /\ Direct(f) /\ Finished /\ ~intr /\ ~AnyError
         /\ Len(conv.ocrRes) = conv.total_pages
         /\ \A p \in 1..Len(conv.ocrRes) :
               conv.ocrRes[p] \in {"nowords", "words", "words_inserted", "words_drawn"}
         /\ \E p \in 1..Len(conv.ocrRes) : conv.ocrRes[p] = "nowords" )
       => /\ ret = "True"
          /\ OutputWritten
          /\ \A p \in 1..Len(conv.ocrRes) :
                conv.ocrRes[p] = "nowords" =>
                   \E i \in 1..Len(files[conv.output_pdf_path]) :
                      /\ files[conv.output_pdf_path][i].src = p
                      /\ files[conv.output_pdf_path][i].kind \in {"orig", "blank", "image"}

\* C2.  In the page loops of create_pdf_with_reportlab and
\* create_text_only_pdf_clean, a page whose iteration raised is on the canvas
\* as a blank page, every visited source page has a page on the canvas, the
\* loop ends only after the last page (an interrupt apart), and the written
\* file holds a page for every source page.
C2_PageFailureRecovered ==
    \A f \in {RL, TO} :
       Direct(f) =>
          /\ \A k \in 1..conv.page_num : Holds(conv.c, k)
          /\ \A k \in 1..conv.page_num :
                PageFailed(k) => \E i \in 1..Len(conv.c) : conv.c[i] = Page(k, "blank")
          /\ (Finished /\ conv.total_pages > 0 /\ ~intr) => conv.page_num = conv.total_pages
          /\ (Finished /\ ret = "True") =>
                /\ OutputWritten
                /\ \A k \in 1..conv.total_pages : Holds(files[conv.output_pdf_path], k)

\* A failed first page of a longer document, and the whole document written.
C2_Witness ==
    \E f \in {RL, TO} :
       /\ Direct(f) /\ Finished /\ ret = "True"
       /\ conv.total_pages >= 2
       /\ conv.ocrRes[1] = "load_error"
       /\ PageFailed(1)
       /\ Len(files[conv.output_pdf_path]) = conv.total_pages

\* C3.  process_in_chunks with pages_per_chunk >= 1: the i-th range starts at
\* (i-1) * pages_per_chunk and ends at min(i * pages_per_chunk, total_pages),
\* the chunk file handed to the OCR pass holds exactly those pages, and a run
\* that reaches its end has made ceil(total_pages / pages_per_chunk) ranges
\* that cover every page once, all of pages_per_chunk pages but the last, which
\* has total_pages mod pages_per_chunk (pages_per_chunk when that is 0).
C3_ChunkRanges ==
    (Direct(PIC) /\ pic.pages_per_chunk >= 1) =>
       LET ppc == pic.pages_per_chunk
           total == pic.total_pages
           r == pic.ranges
           size(i) == r[i].end_page - r[i].start_page
       IN
       /\ \A i \in 1..Len(r) :
             /\ r[i].start_page = (i - 1) * ppc
             /\ r[i].end_page = Min(i * ppc, total)
       /\ (Len(stack) = 2 /\ At(CSP, "start")) =>
             files[conv.input_pdf_path] =
                SubSeq(pic.pdf_document, r[Len(r)].start_page + 1, r[Len(r)].end_page)
       /\ (Finished /\ Said("complete")) =>
             /\ Len(r) = CeilDiv(total, ppc)
             /\ \A p \in 1..total :
                   Cardinality({i \in 1..Len(r) : r[i].start_page < p /\ p <= r[i].end_page}) = 1
             /\ \A i \in 1..(Len(r) - 1) : size(i) = ppc
             /\ size(Len(r)) = IF total % ppc = 0 THEN ppc ELSE total % ppc

\* Three pages at two per chunk: a full chunk and a last one of 3 mod 2.
C3_Witness ==
    /\ Direct(PIC) /\ Finished /\ Said("complete")
    /\ pic.total_pages = 3 /\ pic.pages_per_chunk = 2
    /\ Len(pic.ranges) = 2
    /\ pic.ranges[2].end_page - pic.ranges[2].start_page = 1

FailsOnMissingInput(f) ==
    (Direct(f) /\ InputMissing /\ ~Said("no_file_provided")) =>
       /\ ocr_calls = 0
       /\ ~Said("opening")
       /\ folders = {}
       /\ DOMAIN files = {}
       /\ stack[1].pc \in {"start", "done"}
       /\ Finished =>
             /\ Said("input_not_found")
             /\ IF f = MPE THEN exit_status = "exit1" ELSE ret = "False"

\* C5 (as stated; simple_ocr_conversion refutes it).  Every conversion entry
\* point that takes an input file fails on a missing one before anything else
\* is done.
C5_EveryEntryPointChecksInput == \A f \in SingleFileCalls : FailsOnMissingInput(f)

\* C5 (amended).  Every conversion entry point that takes an input file,
\* except simple_ocr_conversion, fails on a missing one before anything else
\* is done.
C5_GuardedEntryPointsCheckInput ==
    \A f \in SingleFileCalls \ {SIMPLE} : FailsOnMissingInput(f)

\* process_in_chunks returned False on a missing input, no folder made.
C5_Witness ==
    /\ Direct(PIC) /\ InputMissing /\ Finished
    /\ ret = "False" /\ Said("input_not_found") /\ folders = {}

\* The three scripts' runs, under SpecScripts.
Script(m) == stack[1].fn = m

ScriptEnded == Len(stack) = 1 /\ stack[1].pc = "done"

\* What "fatal" asks of a run whose probe reported a missing dependency: the
\* script has exited with status 1, no PDF was selected, no conversion was
\* called, nothing was opened and no OCR call was made.
ExitedAtProbe ==
    /\ ScriptEnded
    /\ exit_status = "exit1"
    /\ mn.selected_file = NoPath
    /\ mn.calls = <<>>
    /\ ocr_calls = 0
    /\ ~Said("opening")

\* C6 (as stated; PDFconverter.py refutes it).  In each of the three scripts
\* a probe that reports a missing dependency ends the script before any PDF
\* is selected, opened or converted.
C6_MissingDependencyIsFatal ==
    \A m \in Scripts : (Script(m) /\ mn.probe = "missing") => ExitedAtProbe

\* C6 (amended).  A probe that reports a missing dependency ends the two PDFc
\* scripts at once, and ends PDFconverter.py unless the user answers y / yes
\* to "Continue? (y/n)"; after that answer the script goes on as if the probe
\* had succeeded.
C6_MissingDependencyIsFatalUnlessContinued ==
    /\ \A m \in Scripts :
          (Script(m) /\ mn.probe = "missing" /\ mn.continue_anyway # "y") => ExitedAtProbe
    /\ mn.continue_anyway = "y" => (Script(MAIN_PC) /\ mn.probe = "missing")
    /\ (mn.continue_anyway = "y" /\ Top.pc # "start") => exit_status # "exit1"

\* PDFc_Searchable_only.py ended by its probe, nothing selected.
C6_Witness ==
    /\ Script(MAIN_SO) /\ mn.probe = "missing"
    /\ ExitedAtProbe /\ Said("probe_missing")

\* C7 (as stated; PDFconverter.py refutes it).  After a conversion called by
\* a script has returned False, the script calls no other conversion: the
\* i-th result being False, there is no (i+1)-th call.
C7_NoSecondAttempt ==
    \A i \in 1..Len(mn.results) : mn.results[i] = "False" => Len(mn.calls) <= i

\* C7 (amended).  The PDFc scripts call one conversion at most.  PDFconverter.py
\* calls convert_ocr_pdf_to_editable, and when that returns False it calls
\* simple_ocr_conversion once on the same input, without asking; whatever that
\* returns, there is no third call, and no second call after a True.
C7_OneFallbackAtMost ==
    /\ Len(mn.calls) <= 2
    /\ Len(mn.results) <= Len(mn.calls)
    /\ (~Script(MAIN_PC)) => Len(mn.calls) <= 1
    /\ Len(mn.calls) = 2 =>
          /\ mn.calls = <<CONV, SIMPLE>>
          /\ mn.results[1] = "False"
          /\ conv.input_pdf_path = mn.selected_file
    /\ (Script(MAIN_PC) /\ Len(mn.results) >= 1 /\ mn.results[1] = "False") =>
          Len(mn.calls) = 2

\* Both attempts of PDFconverter.py failed, and the script ended there.
C7_Witness ==
    /\ Script(MAIN_PC) /\ ScriptEnded
    /\ mn.calls = <<CONV, SIMPLE>>
    /\ mn.results = <<"False", "False">>

\* C8 (as stated; create_searchable_pdf refutes it).  Once a keyboard
\* interrupt has been delivered to a conversion called directly, the run is
\* over and its output file has not been written.
C8_InterruptAbortsRun ==
    intr => /\ Finished
            /\ \A f \in {CSP, ETO, RL, TO, TF, CEP} : Direct(f) => ~OutputWritten

\* C9 (as stated; create_editable_pdf refutes it).  Between two iterations of
\* the page loops that write a per-page image, and after the last, no
\* per-page image file is on disk.
C9_TempImageGoneAfterIteration ==
    \A f \in {RL, CEP} :
       (Direct(f) /\ At(f, "loop")) =>
          ~\E p \in DOMAIN files : p[1] \in {"temp_page", "tmpdir_png"}

\* A save step of the running conversion has failed.
WriteFailed == \E m \in SaveErrors \cup {"error_chunk_save"} : Said(m)

\* The summary line "Processed X/Y pages".
SaidCounts == Said("summary") \/ Said("processed_chunks")

InTextLayer == Top.pc \in {"text_layer", "page_composed", "page_failed"}

\* The box entry a drawing operation was made for.
BoxOf(d) == conv.boxes[d.i]

\* The entries of the page that the loop has passed.
Passed == 1..conv.i

\* C11.  Every word is drawn with the font size height_px * 72 / dpi clamped
\* into [8, 14]: the size is never below 8 points nor above 14, it is the
\* box height in points when that lies between them, and a box 1000 pixels
\* high at 300 dpi is drawn at 14 points.
C11_FontSizeClamped ==
    InTextLayer =>
       \A k \in 1..Len(conv.draws) :
          LET d == conv.draws[k]
              h72 == BoxOf(d).height * 72
              dpi == conv.dpi
          IN
          /\ d.font_size >= 8 * dpi * 1000
          /\ d.font_size <= 14 * dpi * 1000
          /\ (h72 < 8 * dpi) => d.font_size = 8 * dpi * 1000
          /\ (h72 > 14 * dpi) => d.font_size = 14 * dpi * 1000
          /\ (8 * dpi <= h72 /\ h72 <= 14 * dpi) => d.font_size = h72 * 1000
          /\ (BoxOf(d).height = 1000 /\ dpi = 300) => d.font_size = 14 * 300 * 1000

\* A page at 300 dpi with a box of 1000 pixels drawn at 14 points, a box of
\* 10 pixels drawn at 8 and a box of 55 pixels drawn at its own 13.2.
C11_Witness ==
    /\ Top.pc = "page_composed" /\ conv.dpi = 300
    /\ \E k \in 1..Len(conv.draws) :
          BoxOf(conv.draws[k]).height = 1000 /\ conv.draws[k].font_size = 14 * 300 * 1000
    /\ \E k \in 1..Len(conv.draws) :
          BoxOf(conv.draws[k]).height = 10 /\ conv.draws[k].font_size = 8 * 300 * 1000
    /\ \E k \in 1..Len(conv.draws) :
          BoxOf(conv.draws[k]).height = 55 /\ conv.draws[k].font_size = 55 * 72 * 1000

\* The text of a box entry has a character that is not whitespace.
NonBlank(t) == \E j \in 1..Len(t) : t[j] \notin Whitespace

\* C12.  Of the entries the text-layer loop has passed, one with confidence
\* <= 0 has no drawing operation, one with confidence > 0 and non-blank text
\* has exactly one, and nothing else is drawn.
C12_ConfidenceFilter ==
    InTextLayer =>
       /\ \A j \in Passed :
             Cardinality({k \in 1..Len(conv.draws) : conv.draws[k].i = j}) =
                IF conv.boxes[j].conf > 0 /\ NonBlank(conv.boxes[j].text) THEN 1 ELSE 0
       /\ \A k \in 1..Len(conv.draws) :
             /\ conv.draws[k].i \in Passed
             /\ BoxOf(conv.draws[k]).conf > 0

\* A composed page with an entry of confidence 0, one of confidence -1 and
\* one drawn word.
C12_Witness ==
    /\ Top.pc = "page_composed"
    /\ Len(conv.boxes) = 3 /\ Len(conv.draws) = 1
    /\ \E j \in Passed : conv.boxes[j].conf = 0 /\ NonBlank(conv.boxes[j].text)
    /\ \E j \in Passed : conv.boxes[j].conf = -1

\* C13 (as stated; boxes of different heights refute it).  Of two drawn words
\* of a page, the one with the smaller top_px has the strictly larger y.
C13_YDecreasesWithTop ==
    InTextLayer =>
       \A k, l \in 1..Len(conv.draws) :
          BoxOf(conv.draws[k]).top < BoxOf(conv.draws[l]).top =>
             conv.draws[k].y > conv.draws[l].y

\* C13 (amended).  Of two drawn words of a page, the one whose box has the
\* smaller bottom edge top_px + height_px has the strictly larger y, and equal
\* bottom edges give equal y; so among boxes of one height y strictly
\* decreases as top_px increases.
C13_YDecreasesWithBottomEdge ==
    InTextLayer =>
       \A k, l \in 1..Len(conv.draws) :
          LET a == BoxOf(conv.draws[k])
              b == BoxOf(conv.draws[l])
          IN
          /\ (a.top + a.height < b.top + b.height) => conv.draws[k].y > conv.draws[l].y
          /\ (a.top + a.height = b.top + b.height) => conv.draws[k].y = conv.draws[l].y
          /\ (a.height = b.height /\ a.top < b.top) => conv.draws[k].y > conv.draws[l].y

\* Two drawn boxes of one height, and a taller box that starts higher on the
\* raster and yet is drawn lower.
C13_Witness ==
    /\ Top.pc = "page_composed"
    /\ \E k, l \in 1..Len(conv.draws) :
          /\ BoxOf(conv.draws[k]).height = BoxOf(conv.draws[l]).height
          /\ BoxOf(conv.draws[k]).top < BoxOf(conv.draws[l]).top
          /\ conv.draws[k].y > conv.draws[l].y
    /\ \E k, l \in 1..Len(conv.draws) :
          /\ BoxOf(conv.draws[k]).top < BoxOf(conv.draws[l]).top
          /\ conv.draws[k].y < conv.draws[l].y

\* The judgement "b is on the line of a" the loop makes when a is the entry
\* before b.
JudgedSameLine(a, b) == SameLine(a, b, conv.dpi, conv.image_height)

\* The entries the loop has passed that carry a drawn word.
PassedWords == {conv.boxes[j] : j \in {i \in Passed : DrawsEntry(conv.boxes[i])}}

\* C14 (as stated; the threshold of half a font size refutes both halves).
\* Over the word boxes of a page the same-line judgement is symmetric, and
\* among boxes of one height it is transitive.
C14_SameLineSymmetricTransitive ==
    InTextLayer =>
       \A a, b, c \in PassedWords :
          /\ JudgedSameLine(a, b) => JudgedSameLine(b, a)
          /\ (a.height = b.height /\ b.height = c.height
                /\ JudgedSameLine(a, b) /\ JudgedSameLine(b, c)) => JudgedSameLine(a, c)

\* C14 (amended).  The judgement compares the distance of the two baselines
\* with half the font size of the second word: it is reflexive, it is
\* symmetric between two boxes of the same font size, and from A, B same-line
\* and B, C same-line at one font size it follows only that the baselines of
\* A and C are closer than that font size.
C14_SameLineSymmetricAtOneFontSize ==
    InTextLayer =>
       \A a, b, c \in PassedWords :
          LET fs(w) == FontSize(w.height, conv.dpi)
              y(w) == YOf(w, conv.image_height)
          IN
          /\ JudgedSameLine(a, a)
          /\ JudgedSameLine(a, b) <=> 2 * Abs(y(a) - y(b)) < fs(b)
          /\ fs(a) = fs(b) => (JudgedSameLine(a, b) <=> JudgedSameLine(b, a))
          /\ (fs(a) = fs(b) /\ fs(b) = fs(c) /\ JudgedSameLine(a, b) /\ JudgedSameLine(b, c))
                => Abs(y(a) - y(c)) < fs(c)

\* Three boxes of one height, each on the line of the one before it and on
\* the line of the one after it, the third not on the line of the first.
C14_Witness ==
    /\ Top.pc = "page_composed"
    /\ \E a, b, c \in PassedWords :
          /\ a.height = b.height /\ b.height = c.height
          /\ JudgedSameLine(a, b) /\ JudgedSameLine(b, a)
          /\ JudgedSameLine(b, c) /\ JudgedSameLine(c, b)
          /\ ~JudgedSameLine(a, c)

\* C15 (as stated; a word spaced after its neighbour refutes it).  Every word
\* is drawn at x = left_px * 72 / dpi and
\* y = page_height - (top_px + height_px) * 72 / dpi of its own box.
C15_DrawnAtBoxPosition ==
    InTextLayer =>
       \A k \in 1..Len(conv.draws) :
          LET d == conv.draws[k] IN
          /\ d.x = BoxOf(d).left * 72 * 1000
          /\ d.y = conv.image_height * 72 * 1000 - (BoxOf(d).top + BoxOf(d).height) * 72 * 1000

\* C15 (amended).  Every word is drawn at the y of its own box.  Its x is
\* left_px * 72 / dpi, moved right by the width of one space (0.278 of the
\* word's font size) exactly when the entry before it in boxes, drawn or not,
\* has its baseline closer than half the font size and its right edge less
\* than three spaces to the left.
C15_DrawnAtBoxPositionOrSpaced ==
    InTextLayer =>
       \A k \in 1..Len(conv.draws) :
          LET d == conv.draws[k]
              b == BoxOf(d)
              space == (d.font_size \div 1000) * 278
              x0 == b.left * 72 * 1000
              spaced ==
                 /\ d.i > 1
                 /\ LET p == conv.boxes[d.i - 1] IN
                    /\ 2 * Abs((p.top + p.height) - (b.top + b.height)) * 72 * 1000 < d.font_size
                    /\ (b.left - (p.left + p.width)) * 72 * 1000 < 3 * space
          IN
          /\ d.y = conv.image_height * 72 * 1000 - (b.top + b.height) * 72 * 1000
          /\ d.x = IF spaced THEN x0 + space ELSE x0

\* A page whose second word was moved right by a space and whose first was
\* drawn at its box's left edge.
C15_Witness ==
    /\ Top.pc = "page_composed"
    /\ \E k, l \in 1..Len(conv.draws) :
          /\ conv.draws[k].x = XOf(BoxOf(conv.draws[k]))
          /\ conv.draws[l].i > 1
          /\ conv.draws[l].x > XOf(BoxOf(conv.draws[l]))

\* C16 (as stated; the closing rule of the detection refutes it).  The lines
\* "HEADER", "", "Body text that continues.", "More body." give two
\* paragraphs, the first a heading.
C16_ExampleGivesTwoParagraphs ==
    (conv.text_lines = ExampleLines /\ Top.pc = "page_done") =>
       /\ Len(conv.paragraphs) = 2
       /\ Len(conv.layout) = 2
       /\ conv.layout[1].is_header

\* C16 (amended).  The lines "HEADER", "", "Body text that continues.",
\* "More body." give three paragraphs, one per non-blank line, since each of
\* these lines is short and the last two end with a period; only the first is
\* a heading.
C16_ExampleGivesThreeParagraphs ==
    (conv.text_lines = ExampleLines /\ Top.pc \in {"layout", "page_done"}) =>
       /\ conv.paragraphs = <<HeaderLine, BodyLine, MoreBodyLine>>
       /\ Top.pc = "page_done" =>
             /\ Len(conv.layout) = 3
             /\ \A p \in 1..3 : conv.layout[p].paragraph = conv.paragraphs[p]
             /\ conv.layout[1].is_header
             /\ ~conv.layout[2].is_header
             /\ ~conv.layout[3].is_header

\* The example laid out: three paragraphs, "HEADER" drawn as a heading.
C16_Witness ==
    /\ conv.text_lines = ExampleLines /\ Top.pc = "page_done"
    /\ Len(conv.layout) = 3
    /\ conv.layout[1].paragraph = HeaderLine /\ conv.layout[1].is_header
    /\ \E k \in 1..Len(conv.c) : conv.c[k].text = HeaderLine /\ conv.c[k].font = HeadingFont

\* C17.  Each step of the paragraph detection: a blank line closes the
\* paragraph being accumulated, if there is one, and opens nothing; a
\* non-blank line shorter than 40 characters or ending with one of . ! ? : ;
\* is added to the accumulated lines and closes the paragraph there; any
\* other line is added and leaves the paragraph open.
C17_ParagraphBreaks ==
    [][ (At(TO, "paragraphs") /\ conv.k < Len(conv.text_lines)) =>
          LET raw == conv.text_lines[conv.k + 1]
              blank == \A j \in 1..Len(raw) : raw[j] \in Whitespace
              line == Strip(raw)
              closes == Len(line) < 40 \/ line[Len(line)] \in {".", "!", "?", ":", ";"}
          IN
          IF blank
          THEN /\ conv'.current_para = <<>>
               /\ conv'.paragraphs = IF conv.current_para = <<>> THEN conv.paragraphs
                                     ELSE Append(conv.paragraphs, Join(conv.current_para))
          ELSE IF closes
          THEN /\ conv'.current_para = <<>>
               /\ conv'.paragraphs =
                     Append(conv.paragraphs, Join(Append(conv.current_para, line)))
          ELSE /\ conv'.current_para = Append(conv.current_para, line)
               /\ conv'.paragraphs = conv.paragraphs
      ]_vars

\* Two lines of 40 characters accumulated and closed by a blank line into one
\* paragraph of 81 characters.
C17_Witness ==
    /\ Top.pc = "layout"
    /\ conv.text_lines = <<FourWordLine, FourWordLine, <<" ", " ">> >>
    /\ conv.paragraphs = << FourWordLine \o <<" ">> \o FourWordLine >>

\* The words of the lines of a wrapped paragraph, in order.
RECURSIVE WordsOf(_)
WordsOf(lines) ==
    IF lines = <<>> THEN <<>> ELSE lines[1] \o WordsOf(SubSeq(lines, 2, Len(lines)))

\* C18.  The word-wrap of every paragraph laid out: no emitted line is empty,
\* every emitted line of two or more words is narrower than the usable page
\* width in the paragraph's font, a line is as long as it can be (the first
\* word of the next line would not have fitted), and the lines in order hold
\* exactly the paragraph's words in their order, a word wider than the page
\* on a line of its own.
C18_WordWrap ==
    Top.pc \in {"layout", "page_done"} =>
       \A p \in 1..Len(conv.layout) :
          LET e == conv.layout[p]
              font == IF e.is_header THEN HeadingFont ELSE BodyFont
              usable == (612 - 72 - 72) * 1000
          IN
          /\ WordsOf(e.lines) = Split(e.paragraph)
          /\ \A l \in 1..Len(e.lines) :
                /\ Len(e.lines[l]) >= 1
                /\ Len(e.lines[l]) >= 2 => StringWidth(Join(e.lines[l]), font) < usable
                /\ l < Len(e.lines) =>
                      StringWidth(Join(Append(e.lines[l], e.lines[l + 1][1])), font) >= usable

\* A paragraph of nine words wrapped into a line of several words, and a
\* word wider than the page on a line of its own.
C18_Witness ==
    /\ Top.pc = "page_done"
    /\ \E p \in 1..Len(conv.layout) :
          LET e == conv.layout[p] IN
          /\ Len(Split(e.paragraph)) = 9
          /\ Len(e.lines) >= 3
          /\ \E l \in 1..Len(e.lines) : Len(e.lines[l]) >= 2
          /\ \E l \in 1..Len(e.lines) :
                /\ e.lines[l] = <<Chars("a", 80)>>
                /\ StringWidth(Chars("a", 80), BodyFont) > UsableWidth

\* What a text file holds for pages p.. of a document whose pages gave the
\* OCR outcomes res: a marker and the text for every page with words.
RECURSIVE TextOfPages(_, _)
TextOfPages(res, p) ==
    IF p > Len(res) THEN <<>>
    ELSE (IF res[p] = "words" THEN <<Page(p, "marker"), Page(p, "text")>> ELSE <<>>)
         \o TextOfPages(res, p + 1)

\* C19 (as stated; extract_to_text_file refutes it).  The text file written
\* by extract_text_only and by extract_to_text_file holds, for each page
\* whose OCR text is not empty, one marker with the page's number followed by
\* the page's text, in ascending page order, and nothing for the other pages.
C19_TextFileHoldsPagesWithText ==
    \A f \in {ETO, TF} :
       (Direct(f) /\ Finished /\ ret = "True") =>
          /\ OutputWritten
          /\ files[conv.output_pdf_path] = TextOfPages(conv.ocrRes, 1)

\* The number of times the batch loop announced the conversion of file i.
Attempts(i) == Cardinality({j \in 1..Len(log) : log[j] = Msg("batch_processing", i, 0)})

\* C20.  In a run of batch_convert_pdfs that is not interrupted, at the head
\* of the loop every file up to the current one has been handed to the
\* conversion exactly once and no later file has, with successful + failed
\* the number of files handled, whatever the earlier results; and when the
\* function finishes with its summary, every PDF file found in the input
\* folder was attempted exactly once and successful + failed is their number.
C20_EveryFileOnce ==
    /\ At(BATCH, "loop") =>
          /\ bat.successful + bat.failed = bat.idx
          /\ \A i \in 1..Len(bat.pdf_files) :
                Attempts(i) = IF i <= bat.idx THEN 1 ELSE 0
    /\ (Direct(BATCH) /\ Finished /\ Said("batch_complete")) =>
          /\ bat.pdf_files = InputFolderFiles(files)
          /\ \A i \in 1..Len(bat.pdf_files) : Attempts(i) = 1
          /\ bat.successful + bat.failed = Len(bat.pdf_files)
          /\ log[Len(log)] = Msg("batch_complete", bat.successful, bat.failed)

\* A batch of two files finished, the first conversion failed and the second
\* succeeded.
C20_Witness ==
    /\ Direct(BATCH) /\ Finished
    /\ Len(bat.pdf_files) = 2
    /\ bat.successful = 1 /\ bat.failed = 1
    /\ OutPath(1) \notin DOMAIN files /\ OutPath(2) \in DOMAIN files
    /\ log[Len(log)] = Msg("batch_complete", 1, 1)

\* C21 (as stated; the three callers that unpack two values refute it).
\* Every caller of extract_text_from_page unpacks as many values as it
\* returns, so that in create_pdf_with_reportlab, create_text_only_pdf_clean and
\* extract_to_text_file a visited page with non-empty OCR text has not gone
\* through the per-page exception handler (in create_pdf_with_reportlab,
\* unless drawing its image failed, which leaves the temporary image), the
\* pages with text are counted in successful_pages, and when the call has
\* succeeded the page's content is in the output file.
C21_UnpackMatchesReturn ==
    \A f \in {RL, TO, TF} :
       Direct(f) =>
          /\ \A p \in 1..Len(conv.ocrRes) :
                conv.ocrRes[p] = "words" =>
                   /\ PageFailed(p) => (f = RL /\ TempImagePath(p - 1) \in DOMAIN files)
                   /\ (Finished /\ ret = "True" /\ ~PageFailed(p)) =>
                         \E i \in 1..Len(files[conv.output_pdf_path]) :
                            /\ files[conv.output_pdf_path][i].src = p
                            /\ files[conv.output_pdf_path][i].kind \in {"image", "text"}
          /\ Cardinality({p \in 1..Len(conv.ocrRes) :
                            conv.ocrRes[p] = "words" /\ ~PageFailed(p)})
                <= conv.successful_pages

\* C23 (as stated; a failed chunk refutes it).  In process_in_chunks, two
\* iterations of the chunk loop never use the same chunk number, and so never
\* the same chunk_NNN.pdf or searchable_chunk_NNN.pdf path, also after an
\* earlier chunk has failed.
C23_ChunkNumbersDistinct ==
    Direct(PIC) =>
       \A i, j \in 1..Len(pic.ranges) :
          i < j =>
             /\ pic.ranges[i].chunk_num # pic.ranges[j].chunk_num
             /\ ChunkPath(pic.ranges[i].chunk_num) # ChunkPath(pic.ranges[j].chunk_num)
             /\ SearchableChunkPath(pic.ranges[i].chunk_num)
                   # SearchableChunkPath(pic.ranges[j].chunk_num)

\* C24 (as stated; the unconditional "return True" refutes its last part).
\* In process_in_chunks, a chunk whose OCR pass fails does not stop the run:
\* a run that reaches its end has attempted every chunk, the count it
\* reports is the number of chunks whose pass returned success, and its
\* result is True only if every chunk succeeded.
C24_ResultTrueOnlyIfAllChunksSucceeded ==
    (Direct(PIC) /\ Finished /\ Said("complete") /\ pic.pages_per_chunk >= 1) =>
       LET r == pic.ranges
           succeeded == {i \in 1..Len(r) : r[i].success = "True"}
       IN
       /\ Len(r) = CeilDiv(pic.total_pages, pic.pages_per_chunk)
       /\ \A i \in 1..Len(r) : r[i].success \in {"True", "False"}
       /\ pic.chunks_processed = Cardinality(succeeded)
       /\ log[Len(log)] = Msg("processed_chunks", Cardinality(succeeded), 0)
       /\ ret = "True" => Cardinality(succeeded) = Len(r)

\* The drawString operations on the canvas, in order.
DrawnLines == SelectSeq(conv.c, LAMBDA o : o.op = "drawString")

\* The wrapped lines of the paragraphs laid out so far, in order, each with
\* the font of its paragraph.
RECURSIVE LinesOf(_, _, _)
LinesOf(layout, p, l) ==
    IF p > Len(layout) THEN <<>>
    ELSE IF l > Len(layout[p].lines) THEN LinesOf(layout, p + 1, 1)
    ELSE <<[text |-> Join(layout[p].lines[l]),
            font |-> IF layout[p].is_header THEN HeadingFont ELSE BodyFont]>>
         \o LinesOf(layout, p, l + 1)

\* C22 (as stated; the overflow branch of the drawing loop refutes it).  In
\* create_text_only_pdf_clean every wrapped line of every paragraph is drawn
\* exactly once, in order and in the font of its paragraph, also when the
\* cursor has passed the bottom margin: the line that triggers the overflow
\* is drawn on the new page right after the "(continued)" header.
C22_EveryWrappedLineDrawn ==
    Top.pc \in {"layout", "page_done"} =>
       /\ Len(DrawnLines) = Len(LinesOf(conv.layout, 1, 1))
       /\ \A k \in 1..Len(DrawnLines) :
             /\ DrawnLines[k].text = LinesOf(conv.layout, 1, 1)[k].text
             /\ DrawnLines[k].font = LinesOf(conv.layout, 1, 1)[k].font
       /\ \A k \in 1..Len(conv.c) :
             conv.c[k].op = "continued" =>
                /\ k < Len(conv.c)
                /\ conv.c[k + 1].op = "drawString"
                /\ conv.c[k + 1].y = FirstLineY

\* The entries the loop has passed that were kept, in order, without the
\* entries discarded as noise.
KeptEntries == SelectSeq(SubSeq(conv.boxes, 1, conv.i), DrawsEntry)

\* C25 (as stated; the use of entry i-1 refutes it).  In the text layer of
\* create_editable_pdf the previous word of the same-line and word-gap test
\* is the previous drawn word: every kept word is drawn where it would be
\* drawn if the entries discarded as noise were not in the list.
C25_NoiseLeavesPositions ==
    InTextLayer =>
       \A k \in 1..Len(conv.draws) :
          /\ conv.draws[k].x = DrawX(KeptEntries, k, conv.dpi, conv.image_height)
          /\ conv.draws[k].y = YOf(KeptEntries[k], conv.image_height)

\* C26.  In create_editable_pdf, at the head of every iteration of the page
\* loop and after it, successful_pages is the length of page_paths and at
\* most the number of pages visited, which is at most total_pages; page_paths
\* names the composed pages in ascending source-page order, each file holding
\* its composed page until the temporary directory is removed; and when the
\* call has succeeded without a merge warning, the final PDF holds exactly
\* successful_pages pages, the composed pages in that order.
C26_SuccessfulPagesIsPagePaths ==
    Direct(CEP) =>
       LET paths == conv.page_paths IN
       /\ conv.successful_pages = Len(paths)
       /\ conv.successful_pages <= conv.page_num
       /\ conv.page_num <= conv.total_pages
       /\ \A i \in 1..Len(paths) :
             /\ paths[i][1] = "tmpdir_pdf"
             /\ paths[i][2] \in 0..(conv.page_num - 1)
             /\ conv.ocrRes[paths[i][2] + 1] = "words_drawn"
             /\ \A j \in 1..Len(paths) : i < j => paths[i][2] < paths[j][2]
             /\ At(CEP, "loop") => files[paths[i]] = <<Page(paths[i][2] + 1, "editable")>>
       /\ (Finished /\ ret = "True" /\ ~Said("warning_temp_file")) =>
             LET out == files[conv.output_pdf_path] IN
             /\ Len(out) = conv.successful_pages
             /\ \A i \in 1..Len(out) : out[i] = Page(paths[i][2] + 1, "editable")

\* A three-page document whose first and third pages were composed and
\* merged and whose second page gave no words.
C26_Witness ==
    /\ Direct(CEP) /\ Finished /\ ret = "True" /\ ~Said("warning_temp_file")
    /\ conv.total_pages = 3
    /\ conv.ocrRes = <<"words_drawn", "nowords", "words_drawn">>
    /\ conv.page_paths = <<TempDirPdf(0), TempDirPdf(2)>>
    /\ files[conv.output_pdf_path] = <<Page(1, "editable"), Page(3, "editable")>>
====
